---- MODULE Spec2Model ----
(***************************************************************************)
(* Possumbly: the invite-gated authorization core (guards, invite ledger,  *)
(* first-admin bootstrap, role changes) and the vote engine, modelled from *)
(* the Express route handlers and the sql.js query layer.                  *)
(*                                                                         *)
(* Every route handler is a synchronous function, so a handler is one      *)
(* atomic step.  req.user is resolved by passport.session() before the     *)
(* route's rate limiter runs; a route mounted behind a limiter is          *)
(* therefore two steps: the request is resolved (a snapshot of the user    *)
(* row is taken, and the guards placed before the limiter run) and later   *)
(* handled with that snapshot.  inflight is the bag of resolved requests.  *)
(*                                                                         *)
(* Every write query is db.run(...) followed by save(), which writes the   *)
(* database file synchronously and can throw; the in-memory write has      *)
(* been applied by then.  A handler takes the index f of the save() call   *)
(* that throws (0: none).                                                  *)
(***************************************************************************)
EXTENDS Bags, FiniteSets, Integers, Sequences, TLC

VARIABLES users, invites, templates, files, memes, votes, inflight, clock, resp, hits,
          audit_logs, disk

vars == <<users, invites, templates, files, memes, votes, inflight, clock, resp, hits,
          audit_logs, disk>>

(***************************************************************************)
(* Bounds and enumerated inputs                                            *)
(***************************************************************************)
MaxInflight == 2
MaxInvites == 2

UserIds == {"u1", "u2", "u3"}
Anon == "anon"
Sessions == UserIds \cup {Anon}
InviteIds == 1..MaxInvites
TemplateIds == {"t1"}
MemeIds == {"m1", "m2"}
ImageFormats == {"png", "webp"}
\* `${id}.${format}`
OutputFilenames == {"m1.png", "m1.webp", "m2.png", "m2.webp", "m3.png", "m3.webp"}
TemplateFilenames == {"t1.png", "t2.png", "t3.png"}
\* nanoid() of an uploaded template
UploadIds == {"t2", "t3"}
BadEditorState == "not an object"
BadId == "../x"
VoteInputs == {1, -1, 0}
Roles == {"admin", "user"}
RoleInputs == Roles \cup {"root"}

Null == "null"
NullTime == -1
NoUser == [id |-> Null, role |-> "none", invite_redeemed |-> 0]

(***************************************************************************)
(* Strings are sequences of one-character strings.                         *)
(***************************************************************************)
HexDigits == {"0", "1", "2", "3", "4", "5", "6", "7", "8", "9"}
HexUpper == {"A", "B", "C", "D", "E", "F"}
LowerToUpper == [c \in {"a", "b", "c", "d", "e", "f", "g"} |->
                   CASE c = "a" -> "A" [] c = "b" -> "B" [] c = "c" -> "C"
                     [] c = "d" -> "D" [] c = "e" -> "E" [] c = "f" -> "F"
                     [] c = "g" -> "G"]
WhiteSpace == {" "}

InviteCodeLen == 12

toUpperCaseNone(s) == s

toUpperCase(s) == [i \in 1..Len(s) |->
                     IF s[i] \in DOMAIN LowerToUpper THEN LowerToUpper[s[i]] ELSE s[i]]

RECURSIVE trimStart(_)
trimStart(s) == IF s # <<>> /\ Head(s) \in WhiteSpace THEN trimStart(Tail(s)) ELSE s

RECURSIVE trimEnd(_)
trimEnd(s) == IF s # <<>> /\ s[Len(s)] \in WhiteSpace
              THEN trimEnd(SubSeq(s, 1, Len(s) - 1)) ELSE s

trim(s) == trimEnd(trimStart(s))

\* /^[A-F0-9]{12}$/.test(code.toUpperCase())
isValidInviteCode(code) ==
  LET up == toUpperCase(code)
  IN  /\ Len(up) = InviteCodeLen
      /\ \A i \in 1..Len(up) : up[i] \in HexUpper \cup HexDigits

\* code.trim().toUpperCase()
normalizeCode(code) == toUpperCase(trim(code))

CodeA == <<"A", "1", "B", "2", "C", "3", "D", "4", "E", "5", "F", "6">>
CodeB == <<"0", "F", "0", "F", "0", "F", "0", "F", "0", "F", "0", "F">>
Codes == {CodeA, CodeB}
CodeUnknown == <<"D", "E", "A", "D", "B", "E", "E", "F", "0", "0", "0", "1">>

\* request bodies of POST /invites/redeem
RawLowerA == <<"a", "1", "b", "2", "c", "3", "d", "4", "e", "5", "f", "6">>
RawPaddedA == <<" ", "a", "1", "B", "2", "c", "3", "D", "4", "e", "5", "F", "6", " ">>
RawEmpty == <<>>
RawBlank == <<" ">>
RawShort == <<"A", "1", "B", "2">>
RawNotHex == <<"g", "1", "B", "2", "C", "3", "D", "4", "E", "5", "F", "6">>
RawInnerSpace == <<"A", "1", " ", "2", "C", "3", "D", "4", "E", "5", "F", "6">>
RawLong == CodeA \o <<"0">>
RawCodes == {CodeA, RawLowerA, RawPaddedA, CodeB, CodeUnknown,
             RawEmpty, RawBlank, RawShort, RawNotHex, RawInnerSpace, RawLong}

\* normalizeCode and isValidInviteCode of each request body, computed once
normalizedCodeOf == [code \in RawCodes |-> normalizeCode(code)]

isValidNormalized == [code \in RawCodes |-> isValidInviteCode(normalizedCodeOf[code])]

(***************************************************************************)
(* Responses: the route, the status, the error or message, and for the     *)
(* vote routes the body <<upvotes, downvotes, score, userVote>> (userVote  *)
(* 0 stands for null).                                                     *)
(***************************************************************************)
Response(route, status, error, body) ==
  [route |-> route, status |-> status, error |-> error, body |-> body]

NoResponse == Response("none", 0, "", <<>>)

MsgUnauthorized == "Unauthorized"
MsgInviteRequired == "Invite code required"
MsgAdminRequired == "Admin access required"
MsgInvalidCode == "Invalid invite code"
MsgCodeRequired == "Invite code is required"
MsgHasAccess == "You already have access"
MsgAdminExists == "Admin already exists"
MsgPublicOnly == "Can only vote on public memes"
MsgMemeNotFound == "Meme not found"

GuardMessages == {MsgUnauthorized, MsgInviteRequired, MsgAdminRequired}

(***************************************************************************)
(* Query layer.  Rows keep the columns the handlers read.                  *)
(***************************************************************************)
userQueries_findById(us, id) == IF id \in DOMAIN us THEN us[id] ELSE NoUser

userQueries_create(us, id) ==
  [u \in DOMAIN us \cup {id} |->
     IF u = id THEN [id |-> id, role |-> "user", invite_redeemed |-> 0] ELSE us[u]]

userQueries_updateInviteRedeemed(us, id) ==
  [u \in DOMAIN us |-> IF u = id THEN [us[u] EXCEPT !.invite_redeemed = 1] ELSE us[u]]

userQueries_setRole(us, role, id) ==
  [u \in DOMAIN us |-> IF u = id THEN [us[u] EXCEPT !.role = role] ELSE us[u]]

userQueries_getAll(us) == {us[u] : u \in DOMAIN us}

inviteQueries_findByCode(inv, code) == {i \in DOMAIN inv : inv[i].code = code}

inviteQueries_findById(inv, id) == {i \in DOMAIN inv : i = id}

\* INSERT INTO invite_codes: id is the primary key, code is UNIQUE
inviteQueries_canCreate(inv, id, code) ==
  /\ id \notin DOMAIN inv
  /\ \A i \in DOMAIN inv : inv[i].code # code

inviteQueries_create(inv, id, code, createdBy) ==
  [i \in DOMAIN inv \cup {id} |->
     IF i = id
     THEN [code |-> code, created_by |-> createdBy, used_by |-> Null, used_at |-> NullTime]
     ELSE inv[i]]

inviteQueries_redeem(inv, usedBy, usedAt, code) ==
  [i \in DOMAIN inv |->
     IF inv[i].code = code
     THEN [inv[i] EXCEPT !.used_by = usedBy, !.used_at = usedAt]
     ELSE inv[i]]

inviteQueries_delete(inv, id) == [i \in DOMAIN inv \ {id} |-> inv[i]]

\* The templates table is a function id -> row; the routes read the columns
\* filename and uploaded_by.
Template(name, filename, uploadedBy) ==
  [name |-> name, filename |-> filename, uploaded_by |-> uploadedBy]

\* INSERT INTO templates (id, name, filename, ..., uploaded_by, created_at)
templateQueries_create(ts, id, name, filename, uploadedBy) ==
  (id :> Template(name, filename, uploadedBy)) @@ ts

templateQueries_findById(ts, id) == {t \in DOMAIN ts : t = id}

templateQueries_delete(ts, id) == [t \in DOMAIN ts \ {id} |-> ts[t]]

\* The uploads directory is the set of paths that exist under it.
TemplateFile(filename) == <<"templates", filename>>
MemeFile(filename) == <<"memes", filename>>

memeQueries_findById(ms, id) == {m \in DOMAIN ms : m = id}

\* the columns of a memes row that the routes read; is_public defaults to 0
Meme(templateId, createdBy, editorState, outputFilename, isPublic, createdAt) ==
  [template_id |-> templateId, created_by |-> createdBy, editor_state |-> editorState,
   output_filename |-> outputFilename, is_public |-> isPublic, created_at |-> createdAt]

memeQueries_create(ms, id, templateId, createdBy, editorState, outputFilename, createdAt) ==
  [m \in DOMAIN ms \cup {id} |->
     IF m = id
     THEN Meme(templateId, createdBy, editorState, outputFilename, 0, createdAt)
     ELSE ms[m]]

memeQueries_update(ms, editorState, outputFilename, id) ==
  [m \in DOMAIN ms |->
     IF m = id
     THEN [ms[m] EXCEPT !.editor_state = editorState, !.output_filename = outputFilename]
     ELSE ms[m]]

memeQueries_setPublic(ms, id, isPublic) ==
  [m \in DOMAIN ms |->
     IF m = id THEN [ms[m] EXCEPT !.is_public = IF isPublic THEN 1 ELSE 0] ELSE ms[m]]

memeQueries_delete(ms, id) == [m \in DOMAIN ms \ {id} |-> ms[m]]

\* The votes table is a bag of rows [meme_id, user_id, vote_type].
Vote(memeId, userId, voteType) ==
  [meme_id |-> memeId, user_id |-> userId, vote_type |-> voteType]

Rows(vs) == BagToSet(vs)

Keep(vs, S) == [v \in S |-> vs[v]]

SameVoteKeySwapped(v, memeId, userId) == v.meme_id = userId /\ v.user_id = memeId

\* the key (meme_id, user_id) of a vote row is (memeId, userId)
SameVoteKey(v, memeId, userId) == v.meme_id = memeId /\ v.user_id = userId

voteQueries_findByMemeAndUserNone(vs, memeId, userId) == {}

voteQueries_findByMemeAndUser(vs, memeId, userId) ==
  {v \in Rows(vs) : SameVoteKey(v, memeId, userId)}

CountWhere(vs, S) == BagCardinality(Keep(vs, S))

voteQueries_getVoteCountsAnyMeme(vs, memeId) ==
  LET upvotes == CountWhere(vs, {v \in Rows(vs) : v.vote_type = 1})
      downvotes == CountWhere(vs, {v \in Rows(vs) : v.vote_type = -1})
  IN  <<upvotes, downvotes, upvotes - downvotes>>

voteQueries_getVoteCounts(vs, memeId) ==
  LET upvotes == CountWhere(vs, {v \in Rows(vs) : v.meme_id = memeId /\ v.vote_type = 1})
      downvotes == CountWhere(vs, {v \in Rows(vs) : v.meme_id = memeId /\ v.vote_type = -1})
  IN  <<upvotes, downvotes, upvotes - downvotes>>

\* INSERT INTO votes: UNIQUE(meme_id, user_id)
voteQueries_canCreate(vs, memeId, userId) ==
  \A v \in Rows(vs) : ~SameVoteKey(v, memeId, userId)

voteQueries_create(vs, memeId, userId, voteType) ==
  vs (+) SetToBag({Vote(memeId, userId, voteType)})

voteQueries_updateWholeMeme(vs, voteType, memeId, userId) ==
  LET hit == {v \in Rows(vs) : v.meme_id = memeId}
      rest == Keep(vs, Rows(vs) \ hit)
  IN  rest (+) SetToBag({Vote(memeId, v.user_id, voteType) : v \in hit})

voteQueries_update(vs, voteType, memeId, userId) ==
  LET hit == voteQueries_findByMemeAndUser(vs, memeId, userId)
      n == CountWhere(vs, hit)
      rest == Keep(vs, Rows(vs) \ hit)
  IN  IF n = 0 THEN vs
      ELSE rest (+) [v \in {Vote(memeId, userId, voteType)} |-> n]

voteQueries_deleteWholeMeme(vs, memeId, userId) ==
  Keep(vs, {v \in Rows(vs) : v.meme_id # memeId})

voteQueries_delete(vs, memeId, userId) ==
  Keep(vs, Rows(vs) \ voteQueries_findByMemeAndUser(vs, memeId, userId))

voteQueries_deleteByMemeNone(vs, memeId) == vs

voteQueries_deleteByMeme(vs, memeId) ==
  Keep(vs, {v \in Rows(vs) : v.meme_id # memeId})

(***************************************************************************)
(* Session resolution and guards                                           *)
(***************************************************************************)
\* the user row as findOrCreateUser wrote it when the session logged in
deserializeUserAtLogin(s) ==
  IF s \in DOMAIN users THEN [id |-> s, role |-> "user", invite_redeemed |-> 0] ELSE NoUser

\* passport.deserializeUser: the session's user id looked up in the users table
deserializeUser(s) == userQueries_findById(users, s)

\* req.isAuthenticated(): req.user is set
reqIsAuthenticated(user) == user # NoUser

\* a guard returns 0 when it calls next(), else the status it rejects with
isAuthenticated(user) == IF reqIsAuthenticated(user) THEN 0 ELSE 401

hasInviteAnyUser(user) == IF ~reqIsAuthenticated(user) THEN 401 ELSE 0

hasInvite(user) ==
  IF ~reqIsAuthenticated(user) THEN 401
  ELSE IF user.invite_redeemed # 0 \/ user.role = "admin" THEN 0
  ELSE 403

isAdmin(user) ==
  IF ~reqIsAuthenticated(user) THEN 401
  ELSE IF user.role = "admin" THEN 0
  ELSE 403

\* the reject responses of the guards
RejectAuthenticated(route) == Response(route, 401, MsgUnauthorized, <<>>)

RejectInvite(route, status) ==
  Response(route, status, IF status = 401 THEN MsgUnauthorized ELSE MsgInviteRequired, <<>>)

RejectAdmin(route, status) ==
  Response(route, status, IF status = 401 THEN MsgUnauthorized ELSE MsgAdminRequired, <<>>)

\* /^[a-zA-Z0-9_-]+$/ over the ids the requests carry
isValidId(id) == id # BadId

Request(route, user) == [route |-> route, user |-> user]

(***************************************************************************)
(* Rate limiters.  Every rateLimit({windowMs, max, message}) keeps one     *)
(* counter per client address.  hits holds the counters of one address,    *)
(* ClientIp; the counters of every other address are not followed, and a   *)
(* request from OtherIp is one whose address is below every max.  Every    *)
(* run lies within one window of each limiter.                             *)
(***************************************************************************)
ClientIp == "ip1"

OtherIp == "ip2"

LimiterGroups ==
  {"global", "redeem", "render", "delete", "upload", "template.delete", "vote", "gallery"}

\* max of rateLimit({...})
LimiterMax ==
  [g \in LimiterGroups |->
     CASE g = "global" -> 1000
       [] g = "redeem" -> 10
       [] g = "render" -> 60
       [] g = "delete" -> 30
       [] g = "upload" -> 20
       [] g = "template.delete" -> 30
       [] g = "vote" -> 60
       [] g = "gallery" -> 100]

\* message of rateLimit({...})
LimiterMessage ==
  [g \in LimiterGroups |->
     CASE g = "global" -> "Too many requests, please try again later"
       [] g = "redeem" -> "Too many invite code attempts, please try again later"
       [] g = "render" -> "Too many render requests. Please try again later."
       [] g = "delete" -> "Too many delete requests. Please try again later."
       [] g = "upload" -> "Too many uploads. Please try again later."
       [] g = "template.delete" -> "Too many delete requests. Please try again later."
       [] g = "vote" -> "Too many vote requests. Please try again later."
       [] g = "gallery" -> "Too many gallery requests. Please try again later."]

\* the limiter a route names after or before its guards
limiterOf ==
  [route \in {"redeem", "meme.render", "meme.delete", "template.upload", "template.delete",
              "vote.cast", "vote.remove", "gallery"} |->
     CASE route = "redeem" -> "redeem"
       [] route = "meme.render" -> "render"
       [] route = "meme.delete" -> "delete"
       [] route = "template.upload" -> "upload"
       [] route = "template.delete" -> "template.delete"
       [] route \in {"vote.cast", "vote.remove"} -> "vote"
       [] route = "gallery" -> "gallery"]

NoHits == [g \in LimiterGroups |-> 0]

\* a limiter counts the request of the address, then compares with max
rateLimit(h, ip, group) ==
  IF ip # ClientIp THEN [hits |-> h, limited |-> FALSE]
  ELSE [hits |-> [h EXCEPT ![group] = @ + 1], limited |-> h[group] + 1 > LimiterMax[group]]

TooManyRequests(route, group) == Response(route, 429, LimiterMessage[group], <<>>)


(***************************************************************************)
(* The database file.  db is the database in memory; saveDatabase writes   *)
(* db.export() to DB_PATH.  disk is the content of the file, or            *)
(* NotFollowed in a specification that does not follow the file.           *)
(***************************************************************************)
Database ==
  [users |-> users, invites |-> invites, templates |-> templates, memes |-> memes,
   votes |-> votes, audit_logs |-> audit_logs]

NotFollowed == [followed |-> FALSE]

\* fs.writeFileSync(DB_PATH, Buffer.from(db.export()))
saveDatabase(file, db) == IF file = NotFollowed THEN NotFollowed ELSE db

(***************************************************************************)
(* Audit log: the rows of audit_logs in the order of their insertion       *)
(***************************************************************************)
AuditEntry(timestamp, userId, action, resourceType, resourceId, success) ==
  [timestamp |-> timestamp, user_id |-> userId, action |-> action,
   resource_type |-> resourceType, resource_id |-> resourceId, success |-> success]

\* INSERT INTO audit_logs (id, timestamp, user_id, action, ...) with
\* timestamp Date.now(); the database is not saved
auditQueries_create(log, now, userId, action, resourceType, resourceId, success) ==
  Append(log, AuditEntry(now, userId, action, resourceType, resourceId, success))

auditQueries_cleanupInclusive(log, now, olderThanMs) ==
  SelectSeq(log, LAMBDA e : ~(e.timestamp <= now - olderThanMs))

\* cutoff = Date.now() - olderThanMs; DELETE FROM audit_logs WHERE timestamp < cutoff
auditQueries_cleanup(log, now, olderThanMs) ==
  SelectSeq(log, LAMBDA e : ~(e.timestamp < now - olderThanMs))

\* audit(action, {req, resourceType, resourceId}): the user id is req.user's,
\* null without req.user
audit(log, now, user, action, resourceType, resourceId, success) ==
  auditQueries_create(log, now, user.id, action, resourceType, resourceId, success)

(***************************************************************************)
(* OAuth callback: findOrCreateUser                                        *)
(***************************************************************************)
findOrCreateUser(u) ==
  /\ u \notin DOMAIN users
  /\ users' = userQueries_create(users, u)
  /\ resp' = Response("login", 302, "", <<>>)
  /\ disk' = saveDatabase(disk, [Database EXCEPT !.users = users'])
  /\ UNCHANGED <<invites, templates, files, memes, votes, inflight, clock, hits, audit_logs>>

(***************************************************************************)
(* Admin routes (no limiter between passport.session and the handler)      *)
(***************************************************************************)
adminsExistOffByOne(us) ==
  Cardinality({u \in userQueries_getAll(us) : u.role = "admin"}) > 1

\* users.filter((u) => u.role === 'admin').length > 0
adminsExist(us) ==
  Cardinality({u \in userQueries_getAll(us) : u.role = "admin"}) > 0

\* POST /api/admin/bootstrap
Bootstrap(s, f) ==
  LET user == deserializeUser(s)
      afterRole == userQueries_setRole(users, "admin", user.id)
      afterBoth == userQueries_updateInviteRedeemed(afterRole, user.id)
  IN  /\ f \in 0..2
      /\ IF adminsExist(users)
         THEN /\ f = 0
              /\ resp' = Response("bootstrap", 403, MsgAdminExists, <<>>)
              /\ UNCHANGED <<users, disk>>
         ELSE IF ~reqIsAuthenticated(user)
         THEN /\ f = 0
              /\ resp' = Response("bootstrap", 401, "Must be authenticated to bootstrap admin", <<>>)
              /\ UNCHANGED <<users, disk>>
         ELSE IF f = 1
         THEN /\ users' = afterRole
              /\ resp' = Response("bootstrap", 500, "Failed to bootstrap admin", <<>>)
              /\ UNCHANGED disk
         ELSE /\ users' = afterBoth
              /\ resp' = IF f = 2
                         THEN Response("bootstrap", 500, "Failed to bootstrap admin", <<>>)
                         ELSE Response("bootstrap", 200, "You are now an admin", <<>>)
              /\ disk' = saveDatabase(disk, [Database EXCEPT
                                               !.users = IF f = 2 THEN afterRole ELSE afterBoth])
      /\ UNCHANGED <<invites, templates, files, memes, votes, inflight, clock, hits, audit_logs>>

isSelfDemotionInverted(currentUser, id, role) == currentUser.id = id /\ role = "admin"

\* currentUser.id === id && role !== 'admin'
isSelfDemotion(currentUser, id, role) == currentUser.id = id /\ role # "admin"

\* PATCH /api/admin/users/:id/role
SetRole(s, id, role, f) ==
  LET currentUser == deserializeUser(s)
      guard == isAdmin(currentUser)
  IN  /\ f \in 0..1
      /\ IF guard # 0
         THEN /\ f = 0
              /\ resp' = RejectAdmin("role", guard)
              /\ UNCHANGED <<users, disk>>
         ELSE IF ~isValidId(id)
         THEN /\ f = 0
              /\ resp' = Response("role", 400, "Invalid user ID", <<>>)
              /\ UNCHANGED <<users, disk>>
         ELSE IF role \notin Roles
         THEN /\ f = 0
              /\ resp' = Response("role", 400, "Invalid role", <<>>)
              /\ UNCHANGED <<users, disk>>
         ELSE IF userQueries_findById(users, id) = NoUser
         THEN /\ f = 0
              /\ resp' = Response("role", 404, "User not found", <<>>)
              /\ UNCHANGED <<users, disk>>
         ELSE IF isSelfDemotion(currentUser, id, role)
         THEN /\ f = 0
              /\ resp' = Response("role", 400, "Cannot demote yourself", <<>>)
              /\ UNCHANGED <<users, disk>>
         ELSE /\ users' = userQueries_setRole(users, role, id)
              /\ resp' = IF f = 1
                         THEN Response("role", 500, "Failed to update user role", <<>>)
                         ELSE Response("role", 200, "", <<>>)
              /\ disk' = IF f = 1 THEN disk
                         ELSE saveDatabase(disk, [Database EXCEPT !.users = users'])
      /\ UNCHANGED <<invites, templates, files, memes, votes, inflight, clock, hits, audit_logs>>

(***************************************************************************)
(* Invite routes                                                           *)
(***************************************************************************)
\* nanoid(): an id no stored invite has
freshInviteId == CHOOSE i \in InviteIds \ DOMAIN invites :
                   \A j \in InviteIds \ DOMAIN invites : i <= j

\* POST /api/invites; code is the value generateInviteCode() draws
CreateInvite(s, code, f) ==
  LET user == deserializeUser(s)
      guard == isAdmin(user)
  IN  /\ f \in 0..1
      /\ code \in Codes
      /\ InviteIds \ DOMAIN invites # {}
      /\ IF guard # 0
         THEN /\ f = 0
              /\ resp' = RejectAdmin("create", guard)
              /\ UNCHANGED <<invites, disk>>
         ELSE IF ~inviteQueries_canCreate(invites, freshInviteId, code)
         THEN /\ f = 0
              /\ resp' = Response("create", 500, "Failed to create invite code", <<>>)
              /\ UNCHANGED <<invites, disk>>
         ELSE /\ invites' = inviteQueries_create(invites, freshInviteId, code, user.id)
              /\ resp' = IF f = 1
                         THEN Response("create", 500, "Failed to create invite code", <<>>)
                         ELSE Response("create", 201, "", <<>>)
              /\ disk' = IF f = 1 THEN disk
                         ELSE saveDatabase(disk, [Database EXCEPT !.invites = invites'])
      /\ UNCHANGED <<users, templates, files, memes, votes, inflight, clock, hits, audit_logs>>

\* DELETE /api/invites/:id
DeleteInvite(s, id, f) ==
  LET user == deserializeUser(s)
      guard == isAdmin(user)
      found == inviteQueries_findById(invites, id)
  IN  /\ f \in 0..1
      /\ IF guard # 0
         THEN /\ f = 0
              /\ resp' = RejectAdmin("delete", guard)
              /\ UNCHANGED <<invites, disk>>
         ELSE IF found = {}
         THEN /\ f = 0
              /\ resp' = Response("delete", 404, "Invite code not found", <<>>)
              /\ UNCHANGED <<invites, disk>>
         ELSE IF invites[id].used_by # Null
         THEN /\ f = 0
              /\ resp' = Response("delete", 400, "Cannot delete a used invite code", <<>>)
              /\ UNCHANGED <<invites, disk>>
         ELSE /\ invites' = inviteQueries_delete(invites, id)
              /\ resp' = IF f = 1
                         THEN Response("delete", 500, "Failed to delete invite code", <<>>)
                         ELSE Response("delete", 200, "", <<>>)
              /\ disk' = IF f = 1 THEN disk
                         ELSE saveDatabase(disk, [Database EXCEPT !.invites = invites'])
      /\ UNCHANGED <<users, templates, files, memes, votes, inflight, clock, hits, audit_logs>>

\* POST /api/invites/redeem from address ip: globalLimiter, req.user
\* resolved, inviteRedeemLimiter; the request then waits for its handler
BeginRedeemFrom(ip, s) ==
  LET global == rateLimit(hits, ip, "global")
      group == rateLimit(global.hits, ip, "redeem")
  IN  /\ IF global.limited
         THEN /\ hits' = global.hits
              /\ resp' = TooManyRequests("redeem", "global")
              /\ UNCHANGED inflight
         ELSE IF group.limited
         THEN /\ hits' = group.hits
              /\ resp' = TooManyRequests("redeem", "redeem")
              /\ UNCHANGED inflight
         ELSE /\ BagCardinality(inflight) < MaxInflight
              /\ hits' = group.hits
              /\ inflight' = inflight (+) SetToBag({Request("redeem", deserializeUser(s))})
              /\ UNCHANGED resp
      /\ UNCHANGED <<users, invites, templates, files, memes, votes, clock, audit_logs, disk>>

BeginRedeem(s) == BeginRedeemFrom(OtherIp, s)

alreadyHasAccessAdminOnly(user) == user.role = "admin"

\* user.invite_redeemed || user.role === 'admin'
alreadyHasAccess(user) == user.invite_redeemed # 0 \/ user.role = "admin"

inviteUnusableIfMissing(invite) == invite = {}

\* !invite || invite.used_by
inviteUnusable(invite) == invite = {} \/ (\E i \in invite : invites[i].used_by # Null)

RedeemRejectedLeaky(user, code) ==
  LET normalizedCode == normalizedCodeOf[code]
      invite == inviteQueries_findByCode(invites, normalizedCode)
  IN  IF isAuthenticated(user) # 0 THEN RejectAuthenticated("redeem")
      ELSE IF code = RawEmpty THEN Response("redeem", 400, MsgCodeRequired, <<>>)
      ELSE IF ~isValidNormalized[code]
           THEN Response("redeem", 400, MsgInvalidCode, <<>>)
      ELSE IF alreadyHasAccess(user)
           THEN Response("redeem", 400, MsgHasAccess, <<>>)
      ELSE IF invite = {}
           THEN Response("redeem", 400, MsgInvalidCode, <<>>)
      ELSE IF inviteUnusable(invite)
           THEN Response("redeem", 400, "Invite code already used", <<>>)
      ELSE NoResponse

\* the response of a redeem the handler rejects, NoResponse if it goes through
RedeemRejected(user, code) ==
  LET normalizedCode == normalizedCodeOf[code]
      invite == inviteQueries_findByCode(invites, normalizedCode)
  IN  IF isAuthenticated(user) # 0 THEN RejectAuthenticated("redeem")
      ELSE IF code = RawEmpty THEN Response("redeem", 400, MsgCodeRequired, <<>>)
      ELSE IF ~isValidNormalized[code]
           THEN Response("redeem", 400, MsgInvalidCode, <<>>)
      ELSE IF alreadyHasAccess(user)
           THEN Response("redeem", 400, MsgHasAccess, <<>>)
      ELSE IF inviteUnusable(invite)
           THEN Response("redeem", 400, MsgInvalidCode, <<>>)
      ELSE NoResponse

\* POST /api/invites/redeem: isAuthenticated, then the handler; code is the
\* request body's code.  Date.now() is read from clock, a logical clock that
\* advances with every redemption written, so that a later redemption never
\* carries the timestamp of an earlier one.
Redeem(req, code, f) ==
  LET user == req.user
      rejected == RedeemRejected(user, code)
      now == clock
  IN  /\ BagIn(req, inflight)
      /\ req.route = "redeem"
      /\ inflight' = inflight (-) SetToBag({req})
      /\ f \in 0..2
      /\ IF rejected # NoResponse
         THEN /\ f = 0
              /\ resp' = rejected
              /\ UNCHANGED <<users, invites, clock, disk>>
         ELSE /\ clock' = clock + 1
              /\ invites' = inviteQueries_redeem(invites, user.id, now, normalizedCodeOf[code])
              /\ users' = IF f = 1 THEN users
                          ELSE userQueries_updateInviteRedeemed(users, user.id)
              /\ resp' = IF f = 0
                         THEN Response("redeem", 200, "Invite code redeemed successfully", <<>>)
                         ELSE Response("redeem", 500, "Failed to redeem invite code", <<>>)
              /\ disk' = IF f = 1 THEN disk
                         ELSE saveDatabase(disk, [Database EXCEPT
                                !.invites = invites',
                                !.users = IF f = 2 THEN users ELSE users'])
      /\ UNCHANGED <<templates, files, memes, votes, hits, audit_logs>>

(***************************************************************************)
(* Meme routes                                                             *)
(***************************************************************************)
\* GET /api/memes: hasInvite, then the handler lists the caller's memes
ListMemes(s) ==
  LET user == deserializeUser(s)
      guard == hasInvite(user)
  IN  /\ resp' = IF guard # 0 THEN RejectInvite("memes", guard)
                 ELSE Response("memes", 200, "", <<>>)
      /\ UNCHANGED <<users, invites, templates, files, memes, votes, inflight, clock, hits, audit_logs, disk>>

freshMemeId == CHOOSE m \in MemeIds \ DOMAIN memes : TRUE

\* POST /api/memes
CreateMeme(s, templateId, editor_state, f) ==
  LET user == deserializeUser(s)
      guard == hasInvite(user)
  IN  /\ f \in 0..1
      /\ MemeIds \ DOMAIN memes # {}
      /\ IF guard # 0
         THEN /\ f = 0
              /\ resp' = RejectInvite("meme.create", guard)
              /\ UNCHANGED <<memes, disk>>
         ELSE IF ~isValidId(templateId)
         THEN /\ f = 0
              /\ resp' = Response("meme.create", 400, "Invalid template ID format", <<>>)
              /\ UNCHANGED <<memes, disk>>
         ELSE IF templateQueries_findById(templates, templateId) = {}
         THEN /\ f = 0
              /\ resp' = Response("meme.create", 404, "Template not found", <<>>)
              /\ UNCHANGED <<memes, disk>>
         ELSE /\ memes' = memeQueries_create(memes, freshMemeId, templateId, user.id,
                                          editor_state, Null, clock)
              /\ resp' = IF f = 1
                         THEN Response("meme.create", 500, "Failed to create meme", <<>>)
                         ELSE Response("meme.create", 201, "", <<>>)
              /\ disk' = IF f = 1 THEN disk
                         ELSE saveDatabase(disk, [Database EXCEPT !.memes = memes'])
      /\ UNCHANGED <<users, invites, templates, files, votes, inflight, clock, hits, audit_logs>>

notOwnerNorAdminInverted(ownerId, user) == ownerId # user.id /\ user.role = "admin"

\* resource.created_by !== user.id && user.role !== 'admin' (uploaded_by for
\* a template)
notOwnerNorAdmin(ownerId, user) == ownerId # user.id /\ user.role # "admin"

\* PATCH /api/memes/:id/visibility
SetVisibility(s, id, isPublic, f) ==
  LET user == deserializeUser(s)
      guard == hasInvite(user)
  IN  /\ f \in 0..1
      /\ IF guard # 0
         THEN /\ f = 0
              /\ resp' = RejectInvite("meme.visibility", guard)
              /\ UNCHANGED <<memes, disk>>
         ELSE IF ~isValidId(id)
         THEN /\ f = 0
              /\ resp' = Response("meme.visibility", 400, "Invalid meme ID", <<>>)
              /\ UNCHANGED <<memes, disk>>
         ELSE IF memeQueries_findById(memes, id) = {}
         THEN /\ f = 0
              /\ resp' = Response("meme.visibility", 404, MsgMemeNotFound, <<>>)
              /\ UNCHANGED <<memes, disk>>
         ELSE IF notOwnerNorAdmin(memes[id].created_by, user)
         THEN /\ f = 0
              /\ resp' = Response("meme.visibility", 403, "Not authorized to update this meme", <<>>)
              /\ UNCHANGED <<memes, disk>>
         ELSE /\ memes' = memeQueries_setPublic(memes, id, isPublic)
              /\ resp' = IF f = 1
                         THEN Response("meme.visibility", 500, "Failed to update meme visibility", <<>>)
                         ELSE Response("meme.visibility", 200, "", <<>>)
              /\ disk' = IF f = 1 THEN disk
                         ELSE saveDatabase(disk, [Database EXCEPT !.memes = memes'])
      /\ UNCHANGED <<users, invites, templates, files, votes, inflight, clock, hits, audit_logs>>

\* a route "hasInvite, limiter, handler" up to its limiter: the guard rejects,
\* or the request waits with req.user resolved.  The path and the body of a
\* waiting request are read by its handler only and are drawn when it runs.
BeginInvitedFrom(ip, route, s) ==
  LET user == deserializeUser(s)
      guard == hasInvite(user)
      global == rateLimit(hits, ip, "global")
      group == rateLimit(global.hits, ip, limiterOf[route])
  IN  /\ route \in {"meme.delete", "meme.render", "template.upload", "template.delete",
                    "vote.cast", "vote.remove"}
      /\ IF global.limited
         THEN /\ hits' = global.hits
              /\ resp' = TooManyRequests(route, "global")
              /\ UNCHANGED inflight
         ELSE IF guard # 0
         THEN /\ hits' = global.hits
              /\ resp' = RejectInvite(route, guard)
              /\ UNCHANGED inflight
         ELSE IF group.limited
         THEN /\ hits' = group.hits
              /\ resp' = TooManyRequests(route, limiterOf[route])
              /\ UNCHANGED inflight
         ELSE /\ BagCardinality(inflight) < MaxInflight
              /\ hits' = group.hits
              /\ inflight' = inflight (+) SetToBag({Request("invited", user)})
              /\ UNCHANGED resp
      /\ UNCHANGED <<users, invites, templates, files, memes, votes, clock, audit_logs, disk>>

BeginInvited(route, s) == BeginInvitedFrom(OtherIp, route, s)

\* meme.output_filename && /^[a-zA-Z0-9_-]+\.(png|jpeg|webp)$/.test(...)
isValidOutputFilename(name) == name # Null /\ name \in OutputFilenames

\* DELETE /api/memes/:id after deleteLimiter
DeleteMeme(req, id, f) ==
  LET user == req.user
  IN  /\ BagIn(req, inflight)
      /\ req.route = "invited"
      /\ inflight' = inflight (-) SetToBag({req})
      /\ f \in 0..2
      /\ IF ~isValidId(id)
         THEN /\ f = 0
              /\ resp' = Response("meme.delete", 400, "Invalid meme ID", <<>>)
              /\ UNCHANGED <<files, memes, votes, disk>>
         ELSE IF memeQueries_findById(memes, id) = {}
         THEN /\ f = 0
              /\ resp' = Response("meme.delete", 404, MsgMemeNotFound, <<>>)
              /\ UNCHANGED <<files, memes, votes, disk>>
         ELSE IF notOwnerNorAdmin(memes[id].created_by, user)
         THEN /\ f = 0
              /\ resp' = Response("meme.delete", 403, "Not authorized to delete this meme", <<>>)
              /\ UNCHANGED <<files, memes, votes, disk>>
         ELSE /\ files' = IF isValidOutputFilename(memes[id].output_filename)
                          THEN files \ {MemeFile(memes[id].output_filename)}
                          ELSE files
              /\ votes' = voteQueries_deleteByMeme(votes, id)
              /\ memes' = IF f = 1 THEN memes ELSE memeQueries_delete(memes, id)
              /\ resp' = IF f = 0
                         THEN Response("meme.delete", 200, "", <<>>)
                         ELSE Response("meme.delete", 500, "Failed to delete meme", <<>>)
              /\ disk' = IF f = 1 THEN disk
                         ELSE saveDatabase(disk, [Database EXCEPT
                                !.votes = votes',
                                !.memes = IF f = 2 THEN memes ELSE memes'])
      /\ UNCHANGED <<users, invites, templates, clock, hits, audit_logs>>

\* !state || typeof state !== 'object', the first test of validateEditorState
validateEditorState(state) == state # BadEditorState

\* PUT /api/memes/:id
UpdateMeme(s, id, editor_state, f) ==
  LET user == deserializeUser(s)
      guard == hasInvite(user)
  IN  /\ f \in 0..1
      /\ IF guard # 0
         THEN /\ f = 0
              /\ resp' = RejectInvite("meme.update", guard)
              /\ UNCHANGED <<memes, disk>>
         ELSE IF ~isValidId(id)
         THEN /\ f = 0
              /\ resp' = Response("meme.update", 400, "Invalid meme ID", <<>>)
              /\ UNCHANGED <<memes, disk>>
         ELSE IF memeQueries_findById(memes, id) = {}
         THEN /\ f = 0
              /\ resp' = Response("meme.update", 404, MsgMemeNotFound, <<>>)
              /\ UNCHANGED <<memes, disk>>
         ELSE IF notOwnerNorAdmin(memes[id].created_by, user)
         THEN /\ f = 0
              /\ resp' = Response("meme.update", 403, "Not authorized to update this meme", <<>>)
              /\ UNCHANGED <<memes, disk>>
         ELSE IF ~validateEditorState(editor_state)
         THEN /\ f = 0
              /\ resp' = Response("meme.update", 400, "Editor state must be an object", <<>>)
              /\ UNCHANGED <<memes, disk>>
         ELSE /\ memes' = memeQueries_update(memes, editor_state, memes[id].output_filename, id)
              /\ resp' = IF f = 1
                         THEN Response("meme.update", 500, "Failed to update meme", <<>>)
                         ELSE Response("meme.update", 200, "", <<>>)
              /\ disk' = IF f = 1 THEN disk
                         ELSE saveDatabase(disk, [Database EXCEPT !.memes = memes'])
      /\ UNCHANGED <<users, invites, templates, files, votes, inflight, clock, hits, audit_logs>>

\* imageData.match(/^data:image\/(png|jpeg|webp);base64,(.+)$/): the format
\* matched, or none
matchFormat(imageData) ==
  IF imageData = "data:image/png;base64,iVBORw0KGgo=" THEN {"png"}
  ELSE IF imageData = "data:image/webp;base64,UklGRg==" THEN {"webp"}
  ELSE {}

\* `${id}.${format}`
renderFilename(id, format) == id \o "." \o format

\* a render request waiting in `await sharp(buffer).metadata()`, with the
\* locals its continuation reads
PendingRender(user, id, meme, format) ==
  [route |-> "render", user |-> user, id |-> id, meme |-> meme, format |-> format]

\* POST /api/memes/:id/render after renderLimiter, up to the await
RenderCheck(req, id, imageData) ==
  LET user == req.user
      matches == matchFormat(imageData)
  IN  /\ BagIn(req, inflight)
      /\ req.route = "invited"
      /\ IF ~isValidId(id)
         THEN /\ resp' = Response("meme.render", 400, "Invalid meme ID", <<>>)
              /\ inflight' = inflight (-) SetToBag({req})
         ELSE IF memeQueries_findById(memes, id) = {}
         THEN /\ resp' = Response("meme.render", 404, MsgMemeNotFound, <<>>)
              /\ inflight' = inflight (-) SetToBag({req})
         ELSE IF notOwnerNorAdmin(memes[id].created_by, user)
         THEN /\ resp' = Response("meme.render", 403, "Not authorized to save this meme", <<>>)
              /\ inflight' = inflight (-) SetToBag({req})
         ELSE IF matches = {}
         THEN /\ resp' = Response("meme.render", 400, "Invalid image data format", <<>>)
              /\ inflight' = inflight (-) SetToBag({req})
         ELSE /\ inflight' = (inflight (-) SetToBag({req})) (+)
                             SetToBag({PendingRender(user, id, memes[id],
                                                     CHOOSE format \in matches : TRUE)})
              /\ UNCHANGED resp
      /\ UNCHANGED <<users, invites, templates, files, memes, votes, clock, hits, audit_logs, disk>>

\* POST /api/memes/:id/render from the await on: the metadata is that of an
\* image or not; the old file goes, the new file is written, the row is
\* updated from the meme read before the await
RenderFinish(req, isImage, f) ==
  LET filename == renderFilename(req.id, req.format)
      unlinked == IF isValidOutputFilename(req.meme.output_filename)
                  THEN files \ {MemeFile(req.meme.output_filename)}
                  ELSE files
  IN  /\ BagIn(req, inflight)
      /\ req.route = "render"
      /\ inflight' = inflight (-) SetToBag({req})
      /\ f \in 0..1
      /\ IF ~isImage
         THEN /\ f = 0
              /\ resp' = Response("meme.render", 400, "Invalid image data", <<>>)
              /\ UNCHANGED <<files, memes, disk>>
         ELSE /\ files' = unlinked \cup {MemeFile(filename)}
              /\ memes' = memeQueries_update(memes, req.meme.editor_state, filename, req.id)
              /\ resp' = IF f = 1
                         THEN Response("meme.render", 500, "Failed to save rendered meme", <<>>)
                         ELSE Response("meme.render", 200, "", <<filename>>)
              /\ disk' = IF f = 1 THEN disk
                         ELSE saveDatabase(disk, [Database EXCEPT !.memes = memes'])
      /\ UNCHANGED <<users, invites, templates, votes, clock, hits, audit_logs>>

\* /^[a-zA-Z0-9_-]+\.(jpg|jpeg|png|gif|webp)$/.test(template.filename)
isValidTemplateFilename(name) == name \in TemplateFilenames

\* DELETE /api/templates/:id after deleteLimiter
DeleteTemplate(req, id, f) ==
  LET user == req.user
  IN  /\ BagIn(req, inflight)
      /\ req.route = "invited"
      /\ inflight' = inflight (-) SetToBag({req})
      /\ f \in 0..1
      /\ IF ~isValidId(id)
         THEN /\ f = 0
              /\ resp' = Response("template.delete", 400, "Invalid template ID", <<>>)
              /\ UNCHANGED <<templates, files, disk, audit_logs>>
         ELSE IF templateQueries_findById(templates, id) = {}
         THEN /\ f = 0
              /\ resp' = Response("template.delete", 404, "Template not found", <<>>)
              /\ UNCHANGED <<templates, files, disk, audit_logs>>
         ELSE IF notOwnerNorAdmin(templates[id].uploaded_by, user)
         THEN /\ f = 0
              /\ resp' = Response("template.delete", 403,
                                  "Not authorized to delete this template", <<>>)
              /\ UNCHANGED <<templates, files, disk, audit_logs>>
         ELSE IF ~isValidTemplateFilename(templates[id].filename)
         THEN /\ f = 0
              /\ resp' = Response("template.delete", 500, "Invalid template data", <<>>)
              /\ UNCHANGED <<templates, files, disk, audit_logs>>
         ELSE /\ files' = files \ {TemplateFile(templates[id].filename)}
              /\ templates' = templateQueries_delete(templates, id)
              /\ resp' = IF f = 1
                         THEN Response("template.delete", 500, "Failed to delete template", <<>>)
                         ELSE Response("template.delete", 200, "", <<>>)
              /\ disk' = IF f = 1 THEN disk
                         ELSE saveDatabase(disk, [Database EXCEPT !.templates = templates'])
              /\ audit_logs' = IF f = 1 THEN audit_logs
                               ELSE audit(audit_logs, clock, user, "template.deleted",
                                          "template", id, 1)
      /\ UNCHANGED <<users, invites, memes, votes, clock, hits>>

\* MAX_NAME_LENGTH
MAX_NAME_LENGTH == 100

\* string.replace(/c/g, entity), for a pattern of one character: every
\* character is replaced on its own, so the halves are replaced separately
RECURSIVE replaceAll(_, _, _)
replaceAll(string, c, entity) ==
  IF string = <<>> THEN <<>>
  ELSE IF Len(string) = 1 THEN (IF string[1] = c THEN entity ELSE string)
  ELSE LET half == Len(string) \div 2
       IN  replaceAll(SubSeq(string, 1, half), c, entity)
             \o replaceAll(SubSeq(string, half + 1, Len(string)), c, entity)

\* string.slice(0, n)
sliceTo(string, n) == SubSeq(string, 1, IF n <= Len(string) THEN n ELSE Len(string))

\* name.trim().slice(0, MAX_NAME_LENGTH).replace(/&/g, '&amp;')
\*   .replace(/</g, '&lt;').replace(/>/g, '&gt;').replace(/"/g, '&quot;')
\*   .replace(/'/g, '&#x27;')
sanitizeName(name) ==
  replaceAll(
    replaceAll(
      replaceAll(
        replaceAll(
          replaceAll(sliceTo(trim(name), MAX_NAME_LENGTH), "&", <<"&", "a", "m", "p", ";">>),
          "<", <<"&", "l", "t", ";">>),
        ">", <<"&", "g", "t", ";">>),
      "\"", <<"&", "q", "u", "o", "t", ";">>),
    "'", <<"&", "#", "x", "2", "7", ";">>)

\* what sharp(req.file.path).metadata() makes of the uploaded file; "none"
\* is a request without file
ImageInputs == {"none", "image", "corrupt", "nodimensions", "huge"}

\* nanoid() of the upload: an id no stored template has
freshTemplateId == CHOOSE t \in UploadIds \ DOMAIN templates : TRUE

\* `${id}${ext}` of multer's filename()
uploadFilename(id) == id \o ".png"

\* POST /api/templates after uploadLimiter and upload.single('image'); body
\* is req.body, a function on the fields sent.  The file multer wrote is
\* unlinked again on every path but the successful one.
UploadTemplate(req, body, image, f) ==
  LET user == req.user
      id == freshTemplateId
      name == body["name"]
      sanitizedName == sanitizeName(name)
  IN  /\ BagIn(req, inflight)
      /\ req.route = "invited"
      /\ inflight' = inflight (-) SetToBag({req})
      /\ f \in 0..1
      /\ UploadIds \ DOMAIN templates # {}
      /\ IF image = "none"
         THEN /\ f = 0
              /\ resp' = Response("template.upload", 400, "No image file provided", <<>>)
              /\ UNCHANGED <<templates, files, disk, audit_logs>>
         ELSE IF "name" \notin DOMAIN body \/ Len(name) = 0 \/ Len(trim(name)) = 0
         THEN /\ f = 0
              /\ resp' = Response("template.upload", 400, "Template name is required", <<>>)
              /\ UNCHANGED <<templates, files, disk, audit_logs>>
         ELSE IF Len(name) > MAX_NAME_LENGTH
         THEN /\ f = 0
              /\ resp' = Response("template.upload", 400,
                                  "Template name must be 100 characters or less", <<>>)
              /\ UNCHANGED <<templates, files, disk, audit_logs>>
         ELSE IF image = "corrupt"
         THEN /\ f = 0
              /\ resp' = Response("template.upload", 400, "Invalid image file", <<>>)
              /\ UNCHANGED <<templates, files, disk, audit_logs>>
         ELSE IF image = "nodimensions"
         THEN /\ f = 0
              /\ resp' = Response("template.upload", 400, "Could not read image dimensions", <<>>)
              /\ UNCHANGED <<templates, files, disk, audit_logs>>
         ELSE IF image = "huge"
         THEN /\ f = 0
              /\ resp' = Response("template.upload", 400,
                                  "Image dimensions too large (max 4096x4096)", <<>>)
              /\ UNCHANGED <<templates, files, disk, audit_logs>>
         ELSE /\ templates' = templateQueries_create(templates, id, sanitizedName,
                                                    uploadFilename(id), user.id)
              /\ files' = IF f = 1 THEN files
                          ELSE files \cup {TemplateFile(uploadFilename(id))}
              /\ resp' = IF f = 1
                         THEN Response("template.upload", 500, "Failed to upload template", <<>>)
                         ELSE Response("template.upload", 201, "", <<id>>)
              /\ disk' = IF f = 1 THEN disk
                         ELSE saveDatabase(disk, [Database EXCEPT !.templates = templates'])
              /\ audit_logs' = IF f = 1 THEN audit_logs
                               ELSE audit(audit_logs, clock, user, "template.created",
                                          "template", id, 1)
      /\ UNCHANGED <<users, invites, memes, votes, clock, hits>>

\* GET /api/templates: hasInvite, then the handler lists the templates
ListTemplates(s) ==
  LET user == deserializeUser(s)
      guard == hasInvite(user)
  IN  /\ resp' = IF guard # 0 THEN RejectInvite("templates", guard)
                 ELSE Response("templates", 200, "", <<>>)
      /\ UNCHANGED <<users, invites, templates, files, memes, votes, inflight, clock, hits,
                     audit_logs, disk>>

\* GET /uploads/...: app.use('/uploads', isAuthenticated, headers,
\* express.static(UPLOADS_PATH)); path is a path under the uploads directory
GetUpload(s, path) ==
  LET user == deserializeUser(s)
      guard == isAuthenticated(user)
  IN  /\ resp' = IF guard # 0 THEN RejectAuthenticated("uploads")
                 ELSE IF path \in files THEN Response("uploads", 200, "", path)
                 ELSE Response("uploads", 404, "", <<>>)
      /\ UNCHANGED <<users, invites, templates, files, memes, votes, inflight, clock, hits,
                     audit_logs, disk>>

(***************************************************************************)
(* Auth routes, the retention sweep and the save timer                     *)
(***************************************************************************)
\* GET /auth/:provider/callback after passport.authenticate: req.user is the
\* user the strategy found or created
LoginCallback(u) ==
  /\ u \in DOMAIN users
  /\ audit_logs' = audit(audit_logs, clock, users[u], "auth.login", Null, Null, 1)
  /\ resp' = Response("login", 302, "", <<>>)
  /\ UNCHANGED <<users, invites, templates, files, memes, votes, inflight, clock, hits, disk>>

\* POST /auth/logout
Logout(s) ==
  /\ audit_logs' = audit(audit_logs, clock, deserializeUser(s), "auth.logout", Null, Null, 1)
  /\ resp' = Response("logout", 200, "", <<>>)
  /\ UNCHANGED <<users, invites, templates, files, memes, votes, inflight, clock, hits, disk>>

\* auditQueries.cleanup(olderThanMs); resp notes the sweep and the number of
\* rows it deleted
cleanup(olderThanMs, f) ==
  /\ f \in 0..1
  /\ audit_logs' = auditQueries_cleanup(audit_logs, clock, olderThanMs)
  /\ disk' = IF f = 1 THEN disk
             ELSE saveDatabase(disk, [Database EXCEPT !.audit_logs = audit_logs'])
  /\ resp' = Response("audit.cleanup", 0, "", <<Len(audit_logs) - Len(audit_logs')>>)
  /\ UNCHANGED <<users, invites, templates, files, memes, votes, inflight, clock, hits>>

\* setInterval(saveDatabase, 30000), and saveDatabase() on SIGINT and SIGTERM
AutoSave ==
  /\ disk' = saveDatabase(disk, Database)
  /\ UNCHANGED <<users, invites, templates, files, memes, votes, inflight, clock, resp, hits,
                 audit_logs>>

\* d units of time pass
Tick(d) ==
  /\ clock' = clock + d
  /\ UNCHANGED <<users, invites, templates, files, memes, votes, inflight, resp, hits,
                 audit_logs, disk>>

(***************************************************************************)
(* Vote routes                                                             *)
(***************************************************************************)
castForbiddenNever(meme, user) == FALSE

castForbiddenAsView(meme, user) ==
  meme.is_public = 0 /\ meme.created_by # user.id /\ user.role # "admin"

\* !meme.is_public
castForbidden(meme, user) == meme.is_public = 0

VoteBody(vs, memeId, userVote) == voteQueries_getVoteCounts(vs, memeId) \o <<userVote>>

\* POST /api/votes/:memeId after voteLimiter
CastVote(req, memeId, vote, f) ==
  LET user == req.user
      existingVote == voteQueries_findByMemeAndUser(votes, memeId, user.id)
      updated == voteQueries_update(votes, vote, memeId, user.id)
      created == voteQueries_create(votes, memeId, user.id, vote)
  IN  /\ BagIn(req, inflight)
      /\ req.route = "invited"
      /\ inflight' = inflight (-) SetToBag({req})
      /\ f \in 0..1
      /\ IF ~isValidId(memeId)
         THEN /\ f = 0
              /\ resp' = Response("vote.cast", 400, "Invalid meme ID", <<>>)
              /\ UNCHANGED <<votes, disk>>
         ELSE IF vote # 1 /\ vote # -1
         THEN /\ f = 0
              /\ resp' = Response("vote.cast", 400, "Vote must be 1 (upvote) or -1 (downvote)", <<>>)
              /\ UNCHANGED <<votes, disk>>
         ELSE IF memeQueries_findById(memes, memeId) = {}
         THEN /\ f = 0
              /\ resp' = Response("vote.cast", 404, MsgMemeNotFound, <<>>)
              /\ UNCHANGED <<votes, disk>>
         ELSE IF castForbidden(memes[memeId], user)
         THEN /\ f = 0
              /\ resp' = Response("vote.cast", 403, MsgPublicOnly, <<>>)
              /\ UNCHANGED <<votes, disk>>
         ELSE IF existingVote # {} /\ (CHOOSE v \in existingVote : TRUE).vote_type = vote
         THEN /\ f = 0
              /\ resp' = Response("vote.cast", 200, "", VoteBody(votes, memeId, vote))
              /\ UNCHANGED <<votes, disk>>
         ELSE IF existingVote # {}
         THEN /\ votes' = updated
              /\ resp' = IF f = 1
                         THEN Response("vote.cast", 500, "Failed to cast vote", <<>>)
                         ELSE Response("vote.cast", 200, "", VoteBody(updated, memeId, vote))
              /\ disk' = IF f = 1 THEN disk
                         ELSE saveDatabase(disk, [Database EXCEPT !.votes = votes'])
         ELSE IF ~voteQueries_canCreate(votes, memeId, user.id)
         THEN /\ f = 0
              /\ resp' = Response("vote.cast", 500, "Failed to cast vote", <<>>)
              /\ UNCHANGED <<votes, disk>>
         ELSE /\ votes' = created
              /\ resp' = IF f = 1
                         THEN Response("vote.cast", 500, "Failed to cast vote", <<>>)
                         ELSE Response("vote.cast", 200, "", VoteBody(created, memeId, vote))
              /\ disk' = IF f = 1 THEN disk
                         ELSE saveDatabase(disk, [Database EXCEPT !.votes = votes'])
      /\ UNCHANGED <<users, invites, templates, files, memes, clock, hits, audit_logs>>

\* !meme.is_public && meme.created_by !== user.id && user.role !== 'admin'
viewForbidden(meme, user) ==
  meme.is_public = 0 /\ meme.created_by # user.id /\ user.role # "admin"

\* userVote?.vote_type || null, null being 0 in a response body
userVoteOf(vs, memeId, userId) ==
  LET userVote == voteQueries_findByMemeAndUser(vs, memeId, userId)
  IN  IF userVote = {} THEN 0 ELSE (CHOOSE v \in userVote : TRUE).vote_type

\* GET /api/votes/:memeId
GetVotes(s, memeId) ==
  LET user == deserializeUser(s)
      guard == hasInvite(user)
  IN  /\ resp' = IF guard # 0 THEN RejectInvite("vote.get", guard)
                 ELSE IF ~isValidId(memeId)
                 THEN Response("vote.get", 400, "Invalid meme ID", <<>>)
                 ELSE IF memeQueries_findById(memes, memeId) = {}
                 THEN Response("vote.get", 404, MsgMemeNotFound, <<>>)
                 ELSE IF viewForbidden(memes[memeId], user)
                 THEN Response("vote.get", 403, "Not authorized to view this meme", <<>>)
                 ELSE Response("vote.get", 200, "",
                               VoteBody(votes, memeId, userVoteOf(votes, memeId, user.id)))
      /\ UNCHANGED <<users, invites, templates, files, memes, votes, inflight, clock, hits, audit_logs, disk>>

\* DELETE /api/votes/:memeId after voteLimiter
RemoveVote(req, memeId, f) ==
  LET user == req.user
      deleted == voteQueries_delete(votes, memeId, user.id)
  IN  /\ BagIn(req, inflight)
      /\ req.route = "invited"
      /\ inflight' = inflight (-) SetToBag({req})
      /\ f \in 0..1
      /\ IF ~isValidId(memeId)
         THEN /\ f = 0
              /\ resp' = Response("vote.remove", 400, "Invalid meme ID", <<>>)
              /\ UNCHANGED <<votes, disk>>
         ELSE IF memeQueries_findById(memes, memeId) = {}
         THEN /\ f = 0
              /\ resp' = Response("vote.remove", 404, MsgMemeNotFound, <<>>)
              /\ UNCHANGED <<votes, disk>>
         ELSE /\ votes' = deleted
              /\ resp' = IF f = 1
                         THEN Response("vote.remove", 500, "Failed to remove vote", <<>>)
                         ELSE Response("vote.remove", 200, "", VoteBody(deleted, memeId, 0))
              /\ disk' = IF f = 1 THEN disk
                         ELSE saveDatabase(disk, [Database EXCEPT !.votes = votes'])
      /\ UNCHANGED <<users, invites, templates, files, memes, clock, hits, audit_logs>>

(***************************************************************************)
(* Gallery route.  Times are counted in units of 30 minutes (1,800,000    *)
(* ms), the largest unit that divides a day and the 45,000 seconds of the  *)
(* hot score; every timestamp of the model is a multiple of it.            *)
(***************************************************************************)
Day == 48
Infinity == 2147483647

\* TIME_PERIODS
TIME_PERIODS ==
  ("7d" :> 7 * Day) @@ ("30d" :> 30 * Day) @@ ("year" :> 365 * Day) @@ ("all" :> Infinity)

validPeriods == {"7d", "30d", "year", "all"}
validSorts == {"hot", "top", "new"}

DigitValue ==
  ("0" :> 0) @@ ("1" :> 1) @@ ("2" :> 2) @@ ("3" :> 3) @@ ("4" :> 4) @@
  ("5" :> 5) @@ ("6" :> 6) @@ ("7" :> 7) @@ ("8" :> 8) @@ ("9" :> 9)

\* the value of the longest prefix of digits
RECURSIVE parseDigits(_, _)
parseDigits(s, acc) ==
  IF s = <<>> \/ Head(s) \notin DOMAIN DigitValue THEN acc
  ELSE parseDigits(Tail(s), acc * 10 + DigitValue[Head(s)])

\* parseInt(string, 10): leading white space, a sign, then digits up to the
\* first other character; NaN is the empty set, a number n is {n}
parseInt(string) ==
  LET s == trimStart(string)
      signed == s # <<>> /\ Head(s) \in {"-", "+"}
      digits == IF signed THEN Tail(s) ELSE s
  IN  IF digits = <<>> \/ Head(digits) \notin DOMAIN DigitValue THEN {}
      ELSE IF Head(s) = "-" THEN {0 - parseDigits(digits, 0)}
      ELSE {parseDigits(digits, 0)}

\* x || d for a number x: NaN and 0 are falsy
orDefault(x, d) == IF x = {} \/ x = {0} THEN d ELSE CHOOSE n \in x : TRUE

Math_max(a, b) == IF a >= b THEN a ELSE b
Math_min(a, b) == IF a <= b THEN a ELSE b

\* Math.ceil(a / b) for a >= 0, b > 0
Math_ceil_div(a, b) == (a + b - 1) \div b

\* const { period = 'all', ... } = req.query: a key the query lacks takes
\* its default
param(query, key, default) == IF key \in DOMAIN query THEN query[key] ELSE default

pageNum(page) == Math_max(1, orDefault(parseInt(page), 1))

limitNum(limit) == Math_min(50, Math_max(1, orDefault(parseInt(limit), 20)))

RECURSIVE insertByKeyDescBeforeTies(_, _)
insertByKeyDescBeforeTies(sorted, pair) ==
  IF sorted = <<>> THEN <<pair>>
  ELSE IF Head(sorted)[1] > pair[1]
  THEN <<Head(sorted)>> \o insertByKeyDescBeforeTies(Tail(sorted), pair)
  ELSE <<pair>> \o sorted

\* <<key, row>> put behind every pair of sorted whose key is not smaller
RECURSIVE insertByKeyDesc(_, _)
insertByKeyDesc(sorted, pair) ==
  IF sorted = <<>> THEN <<pair>>
  ELSE IF Head(sorted)[1] >= pair[1]
  THEN <<Head(sorted)>> \o insertByKeyDesc(Tail(sorted), pair)
  ELSE <<pair>> \o sorted

\* [...rows].sort((a, b) => key(b) - key(a)) over pairs <<key, row>>: the
\* sort is stable, rows with equal keys keep their order
RECURSIVE sortByKeyDesc(_)
sortByKeyDesc(pairs) ==
  IF pairs = <<>> THEN <<>>
  ELSE insertByKeyDesc(sortByKeyDesc(SubSeq(pairs, 1, Len(pairs) - 1)), pairs[Len(pairs)])

Rowids == <<"m1", "m2", "m3">>

\* the ids of the memes table in rowid order
memeRows(ms) == SelectSeq(Rowids, LAMBDA id : id \in DOMAIN ms)

memeQueries_getAllIds(ms) ==
  LET rows == memeRows(ms)
      sorted == sortByKeyDesc([i \in 1..Len(rows) |-> <<ms[rows[i]].created_at, rows[i]>>])
  IN  [i \in 1..Len(sorted) |-> sorted[i][2]]

\* SELECT * FROM memes WHERE is_public = 1 ORDER BY created_at DESC
memeQueries_getPublic(ms) ==
  LET rows == SelectSeq(memeRows(ms), LAMBDA id : ms[id].is_public = 1)
      sorted == sortByKeyDesc([i \in 1..Len(rows) |-> <<ms[rows[i]].created_at, rows[i]>>])
  IN  [i \in 1..Len(sorted) |-> sorted[i][2]]

\* now - meme.created_at <= periodMs
withinPeriod(meme, period, now) ==
  TIME_PERIODS[period] = Infinity \/ now - meme.created_at <= TIME_PERIODS[period]

\* 1,704,067,200 s (Jan 1, 2024) in units of 30 minutes
HotEpoch == 946704

\* 25,000 * log10(n), rounded, for the absolute scores three voters can give
Log10x25000 == <<0, 7526, 11928>>

getHotScoreNoAge(upvotes, downvotes, createdAt) ==
  LET score == upvotes - downvotes
      abs == IF score < 0 THEN 0 - score ELSE score
      order == Log10x25000[Math_max(abs, 1)]
      sign == IF score > 0 THEN 1 ELSE IF score < 0 THEN 0 - 1 ELSE 0
  IN  sign * order

\* 25,000 * getHotScore(upvotes, downvotes, createdAt): with createdAt a
\* multiple of 30 minutes, seconds / 45000 is (createdAt - HotEpoch) / 25
getHotScore(upvotes, downvotes, createdAt) ==
  LET score == upvotes - downvotes
      abs == IF score < 0 THEN 0 - score ELSE score
      order == Log10x25000[Math_max(abs, 1)]
      sign == IF score > 0 THEN 1 ELSE IF score < 0 THEN 0 - 1 ELSE 0
  IN  sign * order + (createdAt - HotEpoch) * 1000

\* one entry of enrichedMemes; userVote null is 0
GalleryMeme(ms, vs, user, id) ==
  LET counts == voteQueries_getVoteCounts(vs, id)
  IN  [id |-> id, created_by |-> ms[id].created_by, is_public |-> ms[id].is_public,
       created_at |-> ms[id].created_at, upvotes |-> counts[1], downvotes |-> counts[2],
       score |-> counts[3], userVote |-> userVoteOf(vs, id, user.id)]

sortKey(sort, m) ==
  IF sort = "hot" THEN getHotScore(m.upvotes, m.downvotes, m.created_at)
  ELSE IF sort = "top" THEN m.score
  ELSE m.created_at

filteredMemes(ms, period, now) ==
  SelectSeq(memeQueries_getPublic(ms), LAMBDA id : withinPeriod(ms[id], period, now))

sortedMemes(ms, vs, user, period, sort, now) ==
  LET filtered == filteredMemes(ms, period, now)
      enriched == [i \in 1..Len(filtered) |-> GalleryMeme(ms, vs, user, filtered[i])]
      sorted == sortByKeyDesc([i \in 1..Len(enriched) |-> <<sortKey(sort, enriched[i]), enriched[i]>>])
  IN  [i \in 1..Len(sorted) |-> sorted[i][2]]

\* array.slice(start, end) for 0 <= start <= end
slice(array, start, end) ==
  LET from == Math_min(start, Len(array))
      to == Math_min(end, Len(array))
  IN  [i \in 1..(to - from) |-> array[from + i]]

\* the body { memes, pagination } as <<memes, page, limit, total, totalPages,
\* hasNext, hasPrev>>
GalleryBody(items, page, limit, total, totalPages, hasNext, hasPrev) ==
  <<items, page, limit, total, totalPages, hasNext, hasPrev>>

paginateFromZero(sorted, page, limit) ==
  LET total == Len(sorted)
      totalPages == Math_ceil_div(total, limit)
      offset == page * limit
  IN  GalleryBody(slice(sorted, offset, offset + limit), page, limit, total, totalPages,
                  page < totalPages, page > 1)

paginate(sorted, page, limit) ==
  LET total == Len(sorted)
      totalPages == Math_ceil_div(total, limit)
      offset == (page - 1) * limit
  IN  GalleryBody(slice(sorted, offset, offset + limit), page, limit, total, totalPages,
                  page < totalPages, page > 1)

\* the handler of GET /api/gallery
galleryHandler(ms, vs, user, query, now) ==
  LET period == param(query, "period", "all")
      sort == param(query, "sort", "hot")
      page == param(query, "page", <<"1">>)
      limit == param(query, "limit", <<"2", "0">>)
  IN  IF period \notin validPeriods
      THEN Response("gallery", 400, "Invalid period. Must be 7d, 30d, year, or all", <<>>)
      ELSE IF sort \notin validSorts
      THEN Response("gallery", 400, "Invalid sort. Must be hot, top, or new", <<>>)
      ELSE Response("gallery", 200, "",
                    paginate(sortedMemes(ms, vs, user, period, sort, now),
                             pageNum(page), limitNum(limit)))

\* what GET /api/gallery answers: galleryLimiter, isAuthenticated, hasInvite,
\* handler.  The limiter and the guards read req.user only and the handler
\* reads the store in one synchronous run.
galleryRoute(user, query) ==
  IF isAuthenticated(user) # 0 THEN RejectAuthenticated("gallery")
  ELSE IF hasInvite(user) # 0 THEN RejectInvite("gallery", hasInvite(user))
  ELSE galleryHandler(memes, votes, user, query, clock)

\* GET /api/gallery from address ip: globalLimiter, req.user resolved,
\* galleryLimiter, the guards and the handler
GalleryFrom(ip, s, query) ==
  LET global == rateLimit(hits, ip, "global")
      group == rateLimit(global.hits, ip, "gallery")
  IN  /\ IF global.limited
         THEN /\ hits' = global.hits
              /\ resp' = TooManyRequests("gallery", "global")
         ELSE IF group.limited
         THEN /\ hits' = group.hits
              /\ resp' = TooManyRequests("gallery", "gallery")
         ELSE /\ hits' = group.hits
              /\ resp' = galleryRoute(deserializeUser(s), query)
      /\ UNCHANGED <<users, invites, templates, files, memes, votes, inflight, clock, audit_logs, disk>>

Gallery(s, query) == GalleryFrom(OtherIp, s, query)

(***************************************************************************)
(* Spec: users, first-admin bootstrap and role changes, from the empty     *)
(* database.                                                               *)
(***************************************************************************)
Init ==
  /\ users = <<>>
  /\ invites = <<>>
  /\ templates = <<>>
  /\ files = {}
  /\ memes = <<>>
  /\ votes = EmptyBag
  /\ inflight = EmptyBag
  /\ clock = 0
  /\ resp = NoResponse
  /\ disk = NotFollowed
  /\ audit_logs = <<>>
  /\ hits = NoHits

Next ==
  \/ \E u \in UserIds : findOrCreateUser(u)
  \/ \E s \in Sessions, f \in 0..2 : Bootstrap(s, f)
  \/ \E s \in Sessions, id \in UserIds \cup {BadId}, role \in RoleInputs, f \in 0..1 :
       SetRole(s, id, role, f)

Spec == Init /\ [][Next]_vars

(***************************************************************************)
(* SpecInvite: the invite ledger, from the state Spec reaches when u1, u2  *)
(* and u3 have logged in and u1 has bootstrapped.                          *)
(***************************************************************************)
UsersAfterBootstrap ==
  [u \in UserIds |->
     IF u = "u1" THEN [id |-> u, role |-> "admin", invite_redeemed |-> 1]
     ELSE [id |-> u, role |-> "user", invite_redeemed |-> 0]]

InitInvite ==
  /\ users = UsersAfterBootstrap
  /\ invites = <<>>
  /\ templates = <<>>
  /\ files = {}
  /\ memes = <<>>
  /\ votes = EmptyBag
  /\ inflight = EmptyBag
  /\ clock = 0
  /\ resp = Response("bootstrap", 200, "You are now an admin", <<>>)
  /\ disk = NotFollowed
  /\ audit_logs = <<>>
  /\ hits = NoHits

NextInvite ==
  \/ \E s \in Sessions, code \in Codes, f \in 0..1 : CreateInvite(s, code, f)
  \/ \E s \in Sessions, id \in InviteIds, f \in 0..1 : DeleteInvite(s, id, f)
  \/ \E s \in Sessions : BeginRedeem(s)
  \/ \E req \in BagToSet(inflight), code \in RawCodes, f \in 0..2 :
       Redeem(req, code, f)
  \/ \E s \in Sessions : ListMemes(s)

SpecInvite == InitInvite /\ [][NextInvite]_vars

(***************************************************************************)
(* SpecVote: memes and votes, from the state SpecInvite reaches when u1    *)
(* has created code A and u2 has redeemed it; template t1 is uploaded.     *)
(***************************************************************************)
InitVote ==
  /\ users = [UsersAfterBootstrap EXCEPT !["u2"].invite_redeemed = 1]
  /\ invites = (1 :> [code |-> CodeA, created_by |-> "u1", used_by |-> "u2", used_at |-> 0])
  /\ templates = ("t1" :> Template(<<"c", "a", "t">>, "t1.png", "u2"))
  /\ files = {TemplateFile("t1.png")}
  /\ memes = <<>>
  /\ votes = EmptyBag
  /\ inflight = EmptyBag
  /\ clock = 0
  /\ resp = Response("redeem", 200, "Invite code redeemed successfully", <<>>)
  /\ disk = NotFollowed
  /\ audit_logs = <<>>
  /\ hits = NoHits

\* the sessions that post memes: every session but the admin's
MemeAuthors == Sessions \ {"u1"}

NextVote ==
  \/ \E s \in MemeAuthors, t \in TemplateIds \cup {BadId}, f \in 0..1 :
       CreateMeme(s, t, "e0", f)
  \/ \E s \in Sessions, id \in MemeIds, isPublic \in BOOLEAN, f \in 0..1 :
       SetVisibility(s, id, isPublic, f)
  \/ \E route \in {"meme.delete", "vote.cast", "vote.remove"}, s \in Sessions :
       BeginInvited(route, s)
  \/ \E req \in BagToSet(inflight), id \in MemeIds, f \in 0..2 : DeleteMeme(req, id, f)
  \/ \E req \in BagToSet(inflight), id \in MemeIds \cup {BadId}, vote \in VoteInputs, f \in 0..1 :
       CastVote(req, id, vote, f)
  \/ \E req \in BagToSet(inflight), id \in MemeIds, f \in 0..1 : RemoveVote(req, id, f)
  \/ \E s \in Sessions, id \in MemeIds \cup {BadId} : GetVotes(s, id)

SpecVote == InitVote /\ [][NextVote]_vars

(***************************************************************************)
(* SpecGallery: the gallery over three memes of different ages, from a     *)
(* state SpecVote reaches: u1 is admin, u2 has redeemed, u3 has not; the   *)
(* memes carry the votes cast while they were public.                      *)
(***************************************************************************)
GalleryNow == 1000000

GalleryMemeIds == {"m1", "m2", "m3"}

MemesOfGallery(public) ==
  [m \in GalleryMemeIds |->
     CASE m = "m1" -> Meme("t1", "u2", "e0", Null, IF m \in public THEN 1 ELSE 0,
                           GalleryNow - 400 * Day)
       [] m = "m2" -> Meme("t1", "u2", "e0", Null, IF m \in public THEN 1 ELSE 0,
                           GalleryNow - 20 * Day)
       [] m = "m3" -> Meme("t1", "u1", "e0", Null, IF m \in public THEN 1 ELSE 0,
                           GalleryNow - 7 * Day)]

InitGallery ==
  /\ users = [UsersAfterBootstrap EXCEPT !["u2"].invite_redeemed = 1]
  /\ invites = (1 :> [code |-> CodeA, created_by |-> "u1", used_by |-> "u2", used_at |-> 0])
  /\ templates = ("t1" :> Template(<<"c", "a", "t">>, "t1.png", "u2"))
  /\ files = {TemplateFile("t1.png")}
  /\ \E public \in SUBSET GalleryMemeIds : memes = MemesOfGallery(public)
  /\ votes = SetToBag({Vote("m1", "u1", 1), Vote("m1", "u2", 1), Vote("m2", "u1", -1),
                       Vote("m3", "u2", 1)})
  /\ inflight = EmptyBag
  /\ clock = GalleryNow
  /\ resp = NoResponse
  /\ disk = NotFollowed
  /\ audit_logs = <<>>
  /\ hits = NoHits

PeriodInputs == validPeriods \cup {"week"}
SortInputs == validSorts \cup {"best"}
PageInputs == {<<"1">>, <<"2">>, <<"3">>, <<"4">>, <<"0">>}
LimitInputs == {<<"1">>, <<"2">>, <<"0">>, <<"-", "5">>, <<"1", "0", "0", "0">>}

\* the query strings of the requests: every period with every sort, every
\* page with every limit, and queries that leave keys out
GalleryQueries ==
  [period : validPeriods, sort : validSorts, page : {<<"1">>}, limit : {<<"2">>}]
    \cup [period : {"all"}, sort : {"new"}, page : PageInputs, limit : LimitInputs]
    \cup [period : {"30d"}, sort : {"top"}, page : {<<"1">>, <<"2">>, <<"3">>},
          limit : {<<"1">>}]
    \cup {<<>>, [limit |-> <<"0">>], [sort |-> "top", page |-> <<"2">>, limit |-> <<"1">>],
          [period |-> "week", sort |-> "new"], [period |-> "30d", sort |-> "best"],
          [page |-> <<"x">>, limit |-> <<"a", "b", "c">>],
          [page |-> <<" ", "2", "n", "d">>, limit |-> <<"+", "1">>]}

NextGallery ==
  \/ \E s \in Sessions, query \in GalleryQueries : Gallery(s, query)
  \/ \E s \in {"u1", "u2"}, id \in GalleryMemeIds, isPublic \in BOOLEAN, f \in 0..1 :
       SetVisibility(s, id, isPublic, f)

SpecGallery == InitGallery /\ [][NextGallery]_vars

(***************************************************************************)
(* SpecMeme: the mutating routes of one template and one meme, from a      *)
(* state SpecVote reaches when u3 has redeemed code B too: u2 owns         *)
(* template t1 and the rendered, public meme m1; u1 (admin) and u3 have     *)
(* voted on it.  One render request at a time is past its checks.         *)
(***************************************************************************)
InitMeme ==
  /\ users = [u \in UserIds |->
                [UsersAfterBootstrap[u] EXCEPT !.invite_redeemed = 1]]
  /\ invites = (1 :> [code |-> CodeA, created_by |-> "u1", used_by |-> "u2", used_at |-> 0])
                 @@ (2 :> [code |-> CodeB, created_by |-> "u1", used_by |-> "u3", used_at |-> 1])
  /\ templates = ("t1" :> Template(<<"c", "a", "t">>, "t1.png", "u2"))
  /\ files = {TemplateFile("t1.png"), MemeFile("m1.webp")}
  /\ memes = ("m1" :> Meme("t1", "u2", "e0", "m1.webp", 1, 2))
  /\ votes = SetToBag({Vote("m1", "u1", 1), Vote("m1", "u3", -1)})
  /\ inflight = EmptyBag
  /\ clock = 2
  /\ resp = NoResponse
  /\ disk = NotFollowed
  /\ audit_logs = <<>>
  /\ hits = NoHits

ImageDataInputs == {"data:image/png;base64,iVBORw0KGgo=", "data:text/html;base64,PGh0bWw+"}

NextMeme ==
  \/ \E s \in UserIds, editor_state \in {"e1", BadEditorState}, f \in 0..1 :
       UpdateMeme(s, "m1", editor_state, f)
  \/ \E s \in UserIds, isPublic \in BOOLEAN, f \in 0..1 : SetVisibility(s, "m1", isPublic, f)
  \/ \E route \in {"meme.delete", "meme.render", "template.delete"}, s \in UserIds :
       BeginInvited(route, s)
  \/ \E req \in BagToSet(inflight), f \in 0..2 : DeleteMeme(req, "m1", f)
  \/ /\ \A r \in BagToSet(inflight) : r.route # "render"
     /\ \E req \in BagToSet(inflight), imageData \in ImageDataInputs :
          RenderCheck(req, "m1", imageData)
  \/ \E req \in BagToSet(inflight), isImage \in BOOLEAN, f \in 0..1 :
       RenderFinish(req, isImage, f)
  \/ \E req \in BagToSet(inflight), f \in 0..1 : DeleteTemplate(req, "t1", f)

SpecMeme == InitMeme /\ [][NextMeme]_vars

(***************************************************************************)
(* SpecHot: the gallery orders, over three memes created within two days:  *)
(* layout 1 has three different ages and scores, layout 2 two memes of     *)
(* score 2 created 45,000 seconds apart and one of score -2, layout 3      *)
(* three memes created in the same millisecond, two of them with the same  *)
(* score.                                                                  *)
(***************************************************************************)
HotLayouts == 1..3

\* 45,000 seconds in units of 30 minutes
Seconds45000 == 25

HotStart == GalleryNow - 2 * Day

CreatedAtOfLayout ==
  <<[m1 |-> HotStart, m2 |-> HotStart + 5, m3 |-> HotStart + 9],
    [m1 |-> HotStart, m2 |-> HotStart + Seconds45000, m3 |-> HotStart + Seconds45000],
    [m1 |-> HotStart, m2 |-> HotStart, m3 |-> HotStart]>>

VotesOfLayout ==
  <<{Vote("m1", "u1", 1), Vote("m1", "u2", 1), Vote("m2", "u1", 1), Vote("m2", "u2", -1),
     Vote("m3", "u1", 1)},
    {Vote("m1", "u1", 1), Vote("m1", "u2", 1), Vote("m2", "u1", 1), Vote("m2", "u2", 1),
     Vote("m3", "u1", -1), Vote("m3", "u2", -1)},
    {Vote("m1", "u1", -1), Vote("m1", "u2", -1), Vote("m2", "u1", 1), Vote("m3", "u2", 1)}>>

MemesOfLayout(layout, public) ==
  [m \in GalleryMemeIds |->
     Meme("t1", "u2", "e0", Null, IF m \in public THEN 1 ELSE 0, CreatedAtOfLayout[layout][m])]

InitHot ==
  /\ users = [UsersAfterBootstrap EXCEPT !["u2"].invite_redeemed = 1]
  /\ invites = (1 :> [code |-> CodeA, created_by |-> "u1", used_by |-> "u2", used_at |-> 0])
  /\ templates = ("t1" :> Template(<<"c", "a", "t">>, "t1.png", "u2"))
  /\ files = {TemplateFile("t1.png")}
  /\ \E layout \in HotLayouts, public \in SUBSET GalleryMemeIds :
       /\ memes = MemesOfLayout(layout, public)
       /\ votes = SetToBag(VotesOfLayout[layout])
  /\ inflight = EmptyBag
  /\ clock = GalleryNow
  /\ resp = NoResponse
  /\ disk = NotFollowed
  /\ audit_logs = <<>>
  /\ hits = NoHits

HotQueries ==
  [period : {"all"}, sort : validSorts, page : {<<"1">>, <<"2">>}, limit : {<<"2">>, <<"5", "0">>}]
    \cup {<<>>, [period |-> "7d"], [sort |-> "best"]}

NextHot ==
  \/ \E s \in Sessions, query \in HotQueries : Gallery(s, query)
  \/ \E s \in {"u1", "u2"}, id \in GalleryMemeIds, isPublic \in BOOLEAN, f \in 0..1 :
       SetVisibility(s, id, isPublic, f)

SpecHot == InitHot /\ [][NextHot]_vars

(***************************************************************************)
(* SpecLimiter: requests of one address to the rate-limited routes redeem, *)
(* vote and gallery, by an admin (u1), an invited user (u2), a user        *)
(* without invite (u3) and without a session, with the counters of the     *)
(* address at zero, or one request below max.                              *)
(***************************************************************************)
MaxRequests == 3

HitsInputs ==
  {NoHits,
   [NoHits EXCEPT !["global"] = LimiterMax["global"] - 1],
   [g \in LimiterGroups |-> IF g = "global" THEN 0 ELSE LimiterMax[g] - 1]}

InitLimiter ==
  /\ users = [UsersAfterBootstrap EXCEPT !["u2"].invite_redeemed = 1]
  /\ invites = (1 :> [code |-> CodeA, created_by |-> "u1", used_by |-> "u2", used_at |-> 0])
                 @@ (2 :> [code |-> CodeB, created_by |-> "u1", used_by |-> Null,
                           used_at |-> NullTime])
  /\ templates = ("t1" :> Template(<<"c", "a", "t">>, "t1.png", "u2"))
  /\ files = {TemplateFile("t1.png")}
  /\ memes = ("m1" :> Meme("t1", "u2", "e0", Null, 1, 1))
  /\ votes = EmptyBag
  /\ inflight = EmptyBag
  /\ clock = 2
  /\ resp = NoResponse
  /\ disk = NotFollowed
  /\ audit_logs = <<>>
  /\ hits \in HitsInputs

\* the address sends while it has sent fewer than MaxRequests requests and
\* has not been answered 429 by the global limiter
CanSend == hits["global"] \notin {MaxRequests, LimiterMax["global"] + 1}

NextLimiter ==
  \/ \E s \in Sessions : CanSend /\ BeginInvitedFrom(ClientIp, "vote.cast", s)
  \/ \E s \in Sessions : CanSend /\ BeginRedeemFrom(ClientIp, s)
  \/ \E s \in Sessions : CanSend /\ GalleryFrom(ClientIp, s, <<>>)
  \/ \E req \in BagToSet(inflight), vote \in {1, -1} : CastVote(req, "m1", vote, 0)
  \/ \E req \in BagToSet(inflight), code \in {RawLowerA, CodeB} : Redeem(req, code, 0)

SpecLimiter == InitLimiter /\ [][NextLimiter]_vars

(***************************************************************************)
(* SpecAudit: the audit log under logins, logouts, template uploads and    *)
(* deletions and retention sweeps, with time counted in days.  The         *)
(* database file is not followed.                                          *)
(***************************************************************************)
MaxAudit == 2

MaxAge == 45

\* 30 * 24 * 60 * 60 * 1000 ms, the default of cleanup(olderThanMs), in days
DefaultRetention == 30

RetentionInputs == {DefaultRetention, 15}

InitAudit ==
  /\ users = [UsersAfterBootstrap EXCEPT !["u2"].invite_redeemed = 1]
  /\ invites = (1 :> [code |-> CodeA, created_by |-> "u1", used_by |-> "u2", used_at |-> 0])
  /\ templates = ("t1" :> Template(<<"c", "a", "t">>, "t1.png", "u2"))
  /\ files = {TemplateFile("t1.png")}
  /\ memes = <<>>
  /\ votes = EmptyBag
  /\ inflight = EmptyBag
  /\ clock = 0
  /\ resp = NoResponse
  /\ hits = NoHits
  /\ audit_logs = <<>>
  /\ disk = NotFollowed

UploadBodies == {[name |-> <<"c", "a", "t">>]}

NextAudit ==
  \/ \E u \in {"u3"} : Len(audit_logs) < MaxAudit /\ LoginCallback(u)
  \/ \E s \in {Anon} : Len(audit_logs) < MaxAudit /\ Logout(s)
  \/ \E s \in {"u2"}, route \in {"template.upload", "template.delete"} :
       BeginInvited(route, s)
  \/ \E req \in BagToSet(inflight), body \in UploadBodies, f \in 0..1 :
       Len(audit_logs) < MaxAudit /\ UploadTemplate(req, body, "image", f)
  \/ \E req \in BagToSet(inflight), f \in 0..1 :
       Len(audit_logs) < MaxAudit /\ DeleteTemplate(req, "t1", f)
  \/ \E olderThanMs \in RetentionInputs, f \in 0..1 : cleanup(olderThanMs, f)
  \/ \E d \in {15} : clock + d <= MaxAge /\ Tick(d)

SpecAudit == InitAudit /\ [][NextAudit]_vars

(***************************************************************************)
(* SpecAccess: every session, among them u3 who is logged in without       *)
(* invite, sends requests to the template, meme, vote, gallery, admin,     *)
(* invite and upload-file routes.                                          *)
(***************************************************************************)
InitAccess ==
  /\ users = [UsersAfterBootstrap EXCEPT !["u2"].invite_redeemed = 1]
  /\ invites = (1 :> [code |-> CodeA, created_by |-> "u1", used_by |-> "u2", used_at |-> 0])
  /\ templates = ("t1" :> Template(<<"c", "a", "t">>, "t1.png", "u2"))
  /\ files = {TemplateFile("t1.png"), MemeFile("m1.webp")}
  /\ memes = ("m1" :> Meme("t1", "u2", "e0", "m1.webp", 1, 1))
  /\ votes = SetToBag({Vote("m1", "u2", 1)})
  /\ inflight = EmptyBag
  /\ clock = 2
  /\ resp = NoResponse
  /\ hits = NoHits
  /\ audit_logs = <<>>
  /\ disk = NotFollowed

UploadPaths == {TemplateFile("t1.png"), MemeFile("m1.webp"), MemeFile("m2.png")}

InvitedRoutes ==
  {"meme.delete", "meme.render", "template.upload", "template.delete", "vote.cast",
   "vote.remove"}

\* the admin, the user without invite and a request without session
AccessSessions == {"u1", "u3", Anon}

NextAccess ==
  \/ \E s \in AccessSessions : ListTemplates(s)
  \/ \E s \in AccessSessions : ListMemes(s)
  \/ \E s \in AccessSessions : CreateMeme(s, "t1", "e0", 0)
  \/ \E s \in AccessSessions : UpdateMeme(s, "m1", "e1", 0)
  \/ \E s \in AccessSessions, isPublic \in BOOLEAN : SetVisibility(s, "m1", isPublic, 0)
  \/ \E s \in AccessSessions : GetVotes(s, "m1")
  \/ \E s \in AccessSessions : Gallery(s, <<>>)
  \/ \E s \in AccessSessions, role \in Roles : SetRole(s, "u3", role, 0)
  \/ \E s \in AccessSessions : CreateInvite(s, CodeB, 0)
  \/ \E s \in AccessSessions, id \in InviteIds : DeleteInvite(s, id, 0)
  \/ \E s \in AccessSessions, route \in InvitedRoutes : BeginInvited(route, s)
  \/ \E req \in BagToSet(inflight) : RemoveVote(req, "m1", 0)
  \/ \E s \in AccessSessions, path \in UploadPaths : GetUpload(s, path)

SpecAccess == InitAccess /\ [][NextAccess]_vars

\* ---------------------------------------------------------------------------
\* Template uploads over names at the limits of the name checks
\* ---------------------------------------------------------------------------

\* a name of n times the character c
Repeat(c, n) == [i \in 1..n |-> c]

\* req.body.name: plain, padded with markup, whitespace only, and names of
\* MAX_NAME_LENGTH and MAX_NAME_LENGTH + 1 characters with and without a
\* character that sanitizeName escapes
NameInputs ==
  { <<"c", "a", "t">>,
    <<" ", "<", "b", ">", " ">>,
    <<"\"", "'">>,
    <<" ", " ">>,
    Repeat("a", MAX_NAME_LENGTH),
    Repeat("a", MAX_NAME_LENGTH + 1),
    Repeat("a", MAX_NAME_LENGTH - 1) \o <<"&">>,
    Repeat("&", MAX_NAME_LENGTH) }

InitUpload ==
  /\ users = [UsersAfterBootstrap EXCEPT !["u2"].invite_redeemed = 1]
  /\ invites = (1 :> [code |-> CodeA, created_by |-> "u1", used_by |-> "u2", used_at |-> 0])
  /\ templates = ("t1" :> Template(<<"c", "a", "t">>, "t1.png", "u2"))
  /\ files = {TemplateFile("t1.png")}
  /\ memes = <<>>
  /\ votes = EmptyBag
  /\ inflight = EmptyBag
  /\ clock = 0
  /\ resp = NoResponse
  /\ hits = NoHits
  /\ audit_logs = <<>>
  /\ disk = NotFollowed

NextUpload ==
  \/ \E s \in {"u2", "u3"} : BeginInvited("template.upload", s)
  \/ \E req \in BagToSet(inflight), name \in NameInputs, image \in ImageInputs, f \in 0..1 :
       UploadTemplate(req, [name |-> name], image, f)
  \/ \E s \in {"u2"} : ListTemplates(s)

SpecUpload == InitUpload /\ [][NextUpload]_vars

\* ---------------------------------------------------------------------------
\* Role changes and redemption while the sessions of the users concerned
\* stay logged in: u1 is the admin who changes roles, u2 an admin that u1
\* promoted earlier, u3 a user without invite.  Nobody logs in again.
\* ---------------------------------------------------------------------------
InitRole ==
  /\ users = [UsersAfterBootstrap EXCEPT !["u2"].role = "admin"]
  /\ invites = (1 :> [code |-> CodeA, created_by |-> "u1", used_by |-> Null, used_at |-> NullTime])
  /\ templates = <<>>
  /\ files = {}
  /\ memes = <<>>
  /\ votes = EmptyBag
  /\ inflight = EmptyBag
  /\ clock = 0
  /\ resp = NoResponse
  /\ hits = NoHits
  /\ audit_logs = <<>>
  /\ disk = NotFollowed

NextRole ==
  \/ \E id \in {"u2", "u3"}, role \in Roles, f \in 0..1 : SetRole("u1", id, role, f)
  \/ \E role \in Roles : SetRole("u2", "u3", role, 0)
  \/ \E s \in {"u1", "u2"} : CreateInvite(s, CodeB, 0)
  \/ \E id \in InviteIds : DeleteInvite("u2", id, 0)
  \/ BeginRedeem("u3")
  \/ \E req \in BagToSet(inflight), code \in {CodeA, CodeB}, f \in 0..2 : Redeem(req, code, f)
  \/ ListMemes("u3")
  \/ BeginInvited("vote.remove", "u3")
  \/ \E req \in BagToSet(inflight) : RemoveVote(req, "m1", 0)

SpecRole == InitRole /\ [][NextRole]_vars

\* ---------------------------------------------------------------------------
\* The database file followed: initializeDatabase() ends with saveDatabase(),
\* so the file starts as the export of the tables in memory
\* ---------------------------------------------------------------------------
InitDurable ==
  /\ users = [UsersAfterBootstrap EXCEPT !["u2"].invite_redeemed = 1]
  /\ invites = (1 :> [code |-> CodeA, created_by |-> "u1", used_by |-> "u2", used_at |-> 0])
  /\ templates = ("t1" :> Template(<<"c", "a", "t">>, "t1.png", "u2"))
  /\ files = {TemplateFile("t1.png"), MemeFile("m1.webp")}
  /\ memes = ("m1" :> Meme("t1", "u2", "e0", "m1.webp", 1, 1))
  /\ votes = SetToBag({Vote("m1", "u2", 1)})
  /\ inflight = EmptyBag
  /\ clock = 2
  /\ resp = NoResponse
  /\ hits = NoHits
  /\ audit_logs = <<>>
  /\ disk = Database

NextDurable ==
  \/ \E f \in 0..1 : SetRole("u1", "u3", "admin", f)
  \/ \E f \in 0..1 : CreateInvite("u1", CodeB, f)
  \/ \E isPublic \in BOOLEAN, f \in 0..1 : SetVisibility("u2", "m1", isPublic, f)
  \/ \E route \in {"template.delete", "vote.cast"} : BeginInvited(route, "u1")
  \/ \E req \in BagToSet(inflight), f \in 0..1 : DeleteTemplate(req, "t1", f)
  \/ \E req \in BagToSet(inflight), vote \in {1, -1}, f \in 0..1 : CastVote(req, "m1", vote, f)
  \/ \E u \in {"u3"} : Len(audit_logs) < MaxAudit /\ LoginCallback(u)
  \/ AutoSave

SpecDurable == InitDurable /\ [][NextDurable]_vars

(***************************************************************************)
(* Properties                                                              *)
(***************************************************************************)
HasAdmin(us) == \E u \in DOMAIN us : us[u].role = "admin"

HasAccess(user) == user.invite_redeemed # 0 \/ user.role = "admin"

Stored == <<users, invites, templates, memes, votes>>

GenericInvalid == Response("redeem", 400, MsgInvalidCode, <<>>)

\* the code a request body stands for once trimmed and upper-cased, <<>> when
\* that is not 12 hexadecimal characters
ExpectedCode(code) ==
  CASE code \in {CodeA, RawLowerA, RawPaddedA} -> CodeA
    [] code = CodeB -> CodeB
    [] code = CodeUnknown -> CodeUnknown
    [] OTHER -> <<>>

InvitesWithCode(code) == {i \in DOMAIN invites : invites[i].code = code}

\* necessary for a step to be a handler run whose f-th save() call threw: the
\* catch block answered 500
Threw(f) == f # 0 => resp'.status = 500

\* a step in which the handler of the resolved redeem request req responds
RedeemStep(req) ==
  /\ BagIn(req, inflight)
  /\ req.route = "redeem"
  /\ inflight' = inflight (-) SetToBag({req})

\* a step in which the handler of a resolved invite-gated request responds
InvitedStep(req) ==
  /\ BagIn(req, inflight)
  /\ req.route = "invited"
  /\ inflight' = inflight (-) SetToBag({req})

KeyCount(vs, memeId, userId) ==
  CountWhere(vs, {v \in Rows(vs) : v.meme_id = memeId /\ v.user_id = userId})

\* C1: in every reachable state, whatever the interleaving of resolved and
\* handled cast and remove requests, each (meme, user) pair has at most one
\* Vote row.
C1_OneVotePerMemeUser ==
  \A m \in MemeIds, u \in UserIds : KeyCount(votes, m, u) <= 1

C1_Witness ==
  /\ \E u \in {"u1", "u2"} :
       /\ CopiesIn(Request("invited", users[u]), inflight) = 2
       /\ \E m \in MemeIds : KeyCount(votes, m, u) = 1
  /\ resp.route = "vote.cast"
  /\ resp.status = 200

UsedInvitesKept ==
  \A i \in DOMAIN invites :
    invites[i].used_by # Null => i \in DOMAIN invites' /\ invites'[i] = invites[i]

RedeemSucceedsOnUnused(req, code) ==
  resp'.status = 200 =>
    \E i \in InvitesWithCode(ExpectedCode(code)) :
      /\ invites[i].used_by = Null
      /\ invites'[i].used_by = req.user.id

UsedByOther(req, code) ==
  /\ req.user # NoUser
  /\ \E i \in InvitesWithCode(ExpectedCode(code)) : invites[i].used_by \notin {Null, req.user.id}

\* C2 as stated: a redeemed invite keeps used_by and used_at and is never
\* deleted, a redeem succeeds only on an unused invite, and a later redeem of
\* the code by any different user gets the generic 400.
C2_Original ==
  [][/\ UsedInvitesKept
     /\ \A req \in BagToSet(inflight) : RedeemStep(req) =>
          \A code \in RawCodes, f \in 0..2 :
            (Threw(f) /\ (resp'.status = 200 \/ UsedByOther(req, code)) /\ Redeem(req, code, f)) =>
              /\ RedeemSucceedsOnUnused(req, code)
              /\ UsedByOther(req, code) => resp' = GenericInvalid]_vars

\* C2 amended: as C2, the generic 400 being the answer to a different user
\* whose resolved user row has neither invite_redeemed nor role admin.
C2_RedeemedInviteImmutable ==
  [][/\ UsedInvitesKept
     /\ \A req \in BagToSet(inflight) : RedeemStep(req) =>
          \A code \in RawCodes, f \in 0..2 :
            (Threw(f) /\ (resp'.status = 200 \/ UsedByOther(req, code)) /\ Redeem(req, code, f)) =>
              /\ RedeemSucceedsOnUnused(req, code)
              /\ (UsedByOther(req, code) /\ ~HasAccess(req.user)) => resp' = GenericInvalid]_vars

C2_Witness ==
  /\ \E i \in DOMAIN invites : invites[i].used_by = "u2" /\ invites[i].used_at = 0
  /\ users["u3"].invite_redeemed = 0
  /\ clock = 1
  /\ resp = GenericInvalid

\* C3: an invite has used_by = u only if user u has invite_redeemed = true.
C3_RedeemAllOrNothing ==
  \A i \in DOMAIN invites :
    invites[i].used_by # Null => users[invites[i].used_by].invite_redeemed = 1

\* C4: a bootstrap call of an authenticated user succeeds only if no user is
\* admin, and then makes the caller admin with invite_redeemed set; with an
\* admin present it fails 403 'Admin already exists' and changes no user.
C4_BootstrapNeedsNoAdmin ==
  [][\A s \in UserIds, f \in 0..2 : (s \in DOMAIN users /\ Bootstrap(s, f)) =>
       /\ HasAdmin(users) =>
            resp' = Response("bootstrap", 403, MsgAdminExists, <<>>) /\ users' = users
       /\ resp'.status = 200 =>
            /\ ~HasAdmin(users)
            /\ users'[s].role = "admin"
            /\ users'[s].invite_redeemed = 1
            /\ \A u \in DOMAIN users \ {s} : users'[u] = users[u]
       /\ (~HasAdmin(users) /\ f = 0) => resp'.status = 200]_vars

C4_Witness ==
  /\ resp = Response("bootstrap", 200, "You are now an admin", <<>>)
  /\ \E u \in DOMAIN users : users[u].role = "admin" /\ users[u].invite_redeemed = 1
  /\ \E u \in DOMAIN users : users[u].role = "user" /\ users[u].invite_redeemed = 0

\* C5: once a user is admin some user is admin in every later state, and a
\* bootstrap call succeeds only while no bootstrap has promoted anyone.
C5_BootstrapOneTime ==
  [][/\ HasAdmin(users) => HasAdmin(users')
     /\ \A s \in Sessions, f \in 0..2 : (Bootstrap(s, f) /\ resp'.status = 200) =>
          \A u \in DOMAIN users : users[u].role = "user" /\ users[u].invite_redeemed = 0]_vars

C5_Witness ==
  /\ resp = Response("bootstrap", 403, MsgAdminExists, <<>>)
  /\ \E u \in DOMAIN users : users[u].role = "user" /\ users[u].invite_redeemed = 1
  /\ Cardinality({u \in DOMAIN users : users[u].role = "admin"}) = 1

GuardedByAdmin(route, user) ==
  /\ user = NoUser => resp' = Response(route, 401, MsgUnauthorized, <<>>)
  /\ (user # NoUser /\ user.role # "admin") => resp' = Response(route, 403, MsgAdminRequired, <<>>)
  /\ resp'.error \notin GuardMessages => (user # NoUser /\ user.role = "admin")

GuardedByInvite(route, user) ==
  /\ user = NoUser => resp' = Response(route, 401, MsgUnauthorized, <<>>)
  /\ (user # NoUser /\ ~HasAccess(user)) => resp' = Response(route, 403, MsgInviteRequired, <<>>)
  /\ resp'.error \notin GuardMessages => (user # NoUser /\ HasAccess(user))

GuardedByAuthenticated(route, user) ==
  /\ user = NoUser => resp' = Response(route, 401, MsgUnauthorized, <<>>)
  /\ resp'.error \notin GuardMessages => user # NoUser

\* C6: the handler of a guarded route answers only when the guard passed for
\* the request's resolved user; isAuthenticated rejects 401 without a user,
\* hasInvite 401 without a user and 403 'Invite code required' (code
\* INVITE_REQUIRED) without invite_redeemed or role admin, isAdmin 401 without
\* a user and 403 without role admin; a rejection changes nothing stored.
C6_GuardsGateHandlers ==
  [][/\ \A s \in Sessions : (resp'.route = "memes" /\ ListMemes(s)) =>
          GuardedByInvite("memes", userQueries_findById(users, s))
     /\ \A s \in Sessions, code \in Codes, f \in 0..1 :
          (resp'.route = "create" /\ Threw(f) /\ CreateInvite(s, code, f)) =>
            GuardedByAdmin("create", userQueries_findById(users, s))
     /\ \A s \in Sessions, id \in InviteIds, f \in 0..1 :
          (resp'.route = "delete" /\ Threw(f) /\ DeleteInvite(s, id, f)) =>
            GuardedByAdmin("delete", userQueries_findById(users, s))
     /\ \A req \in BagToSet(inflight) : RedeemStep(req) =>
          GuardedByAuthenticated("redeem", req.user)
     /\ resp'.error \in GuardMessages => UNCHANGED Stored]_vars

C6_Witness ==
  /\ resp = Response("memes", 403, MsgInviteRequired, <<>>)
  /\ \E u \in DOMAIN users : ~HasAccess(users[u])
  /\ invites # <<>>

NoInviteUsable(code) ==
  \A i \in InvitesWithCode(ExpectedCode(code)) : invites[i].used_by # Null

\* C7 as stated: redeem answers 400 'Invalid invite code' whenever the code
\* is not 12 hex characters, matches no invite, or matches a used invite, and
\* then changes no invite and no user.
C7_Original ==
  [][\A req \in BagToSet(inflight) : (RedeemStep(req) /\ req.user # NoUser) =>
       \A code \in RawCodes, f \in 0..2 :
         (Threw(f) /\ (ExpectedCode(code) = <<>> \/ NoInviteUsable(code)) /\ Redeem(req, code, f)) =>
           resp' = GenericInvalid /\ UNCHANGED <<users, invites>>]_vars

\* C7 amended: redeem answers 400 'Invalid invite code' when the code is a
\* non-empty string that is not 12 hex characters once trimmed and
\* upper-cased, and, for a caller whose resolved user has neither
\* invite_redeemed nor role admin, when the code matches no invite or a used
\* invite; it then changes no invite and no user.
C7_GenericInvalidCode ==
  [][\A req \in BagToSet(inflight) : (RedeemStep(req) /\ req.user # NoUser) =>
       \A code \in RawCodes \ {RawEmpty}, f \in 0..2 :
         (/\ Threw(f)
          /\ \/ ExpectedCode(code) = <<>>
             \/ ~HasAccess(req.user) /\ NoInviteUsable(code)
          /\ Redeem(req, code, f)) =>
           resp' = GenericInvalid /\ UNCHANGED <<users, invites>>]_vars

C7_Witness ==
  /\ resp = GenericInvalid
  /\ \E i \in DOMAIN invites : invites[i].used_by # Null
  /\ \E i \in DOMAIN invites : invites[i].used_by = Null
  /\ inflight = EmptyBag

C9_CastNeedsPublicMeme ==
  [][\A req \in BagToSet(inflight) : (resp'.route = "vote.cast" /\ InvitedStep(req)) =>
       \A m \in MemeIds, t \in {1, -1}, f \in 0..1 :
         ((m \notin DOMAIN memes \/ memes[m].is_public = 0) /\ CastVote(req, m, t, f)) =>
         /\ m \notin DOMAIN memes =>
              resp' = Response("vote.cast", 404, MsgMemeNotFound, <<>>) /\ votes' = votes
         /\ (m \in DOMAIN memes /\ memes[m].is_public = 0) =>
              resp' = Response("vote.cast", 403, MsgPublicOnly, <<>>) /\ votes' = votes]_vars

C9_Witness ==
  /\ resp = Response("vote.cast", 403, MsgPublicOnly, <<>>)
  /\ \E m \in DOMAIN memes :
       /\ memes[m].is_public = 0
       /\ memes[m].created_by = "u2"
       /\ KeyCount(votes, m, "u2") = 1
       /\ KeyCount(votes, m, "u1") = 1

OtherRowsKept(memeId, userId) ==
  \A v \in Rows(votes) \cup Rows(votes') :
    (v.meme_id # memeId \/ v.user_id # userId) => CopiesIn(v, votes') = CopiesIn(v, votes)

\* C10: after a successful cast(meme, user, t) exactly one Vote row exists for
\* (meme, user) and its type is t; the table grows by one row if the pair had
\* none and keeps its size if the pair had one; the rows of other users and
\* other memes are unchanged; the response has userVote = t.
C10_CastUpserts ==
  [][\A req \in BagToSet(inflight) :
       (resp'.route = "vote.cast" /\ resp'.status = 200 /\ InvitedStep(req)) =>
       \A m \in MemeIds, t \in {1, -1}, f \in 0..1 : CastVote(req, m, t, f) =>
           /\ KeyCount(votes', m, req.user.id) = 1
           /\ CopiesIn(Vote(m, req.user.id, t), votes') = 1
           /\ BagCardinality(votes') = BagCardinality(votes) + 1 - KeyCount(votes, m, req.user.id)
           /\ OtherRowsKept(m, req.user.id)
           /\ resp'.body[4] = t]_vars

C10_Witness ==
  /\ resp = Response("vote.cast", 200, "", <<1, 1, 0, -1>>)
  /\ BagCardinality(votes) = 4
  /\ \E m \in DOMAIN memes : KeyCount(votes, m, "u1") = 1 /\ KeyCount(votes, m, "u2") = 1

\* the counts over the rows of meme m, row by row
Tally(vs, m, t) ==
  CopiesIn(Vote(m, "u1", t), vs) + CopiesIn(Vote(m, "u2", t), vs) + CopiesIn(Vote(m, "u3", t), vs)

LiveCounts(vs, m) == <<Tally(vs, m, 1), Tally(vs, m, -1), Tally(vs, m, 1) - Tally(vs, m, -1)>>

\* C11: a successful cast(meme, user, t) on a public meme leaves the row
\* (meme, user, t) and returns the counts of the rows it leaves with
\* userVote = t; a cast(meme, user, t) that finds that row (the same type cast
\* again) succeeds, changes no Vote row and returns the counts of the unchanged
\* rows with userVote = t, hence the response of the first call when no vote
\* operation on the meme came in between.
C11_SameCastIdempotent ==
  [][\A req \in BagToSet(inflight) : (resp'.route = "vote.cast" /\ InvitedStep(req)) =>
       \A m \in MemeIds, t \in {1, -1}, f \in 0..1 :
         (/\ Threw(f)
          /\ m \in DOMAIN memes
          /\ memes[m].is_public = 1
          /\ CastVote(req, m, t, f)) =>
           /\ resp'.status = 200 =>
                /\ CopiesIn(Vote(m, req.user.id, t), votes') = 1
                /\ resp'.body = LiveCounts(votes', m) \o <<t>>
           /\ CopiesIn(Vote(m, req.user.id, t), votes) >= 1 =>
                /\ resp'.status = 200
                /\ votes' = votes
                /\ resp'.body = LiveCounts(votes, m) \o <<t>>]_vars

C11_Witness ==
  /\ resp = Response("vote.cast", 200, "", <<1, 1, 0, 1>>)
  /\ \E m \in DOMAIN memes :
       /\ memes[m].is_public = 1
       /\ CopiesIn(Vote(m, "u2", 1), votes) = 1
       /\ CopiesIn(Vote(m, "u1", -1), votes) = 1
  /\ inflight = EmptyBag

C13_CountsAreLive ==
  [][/\ \A req \in BagToSet(inflight) :
          (resp'.route = "vote.cast" /\ resp'.status = 200 /\ InvitedStep(req)) =>
            \A m \in MemeIds, t \in {1, -1} : CastVote(req, m, t, 0) =>
              SubSeq(resp'.body, 1, 3) = LiveCounts(votes', m)
     /\ \A req \in BagToSet(inflight) :
          (resp'.route = "vote.remove" /\ resp'.status = 200 /\ InvitedStep(req)) =>
            \A m \in MemeIds : RemoveVote(req, m, 0) =>
              SubSeq(resp'.body, 1, 3) = LiveCounts(votes', m)
     /\ \A s \in UserIds, m \in MemeIds :
          (resp'.route = "vote.get" /\ resp'.status = 200 /\ GetVotes(s, m)) =>
            /\ SubSeq(resp'.body, 1, 3) = LiveCounts(votes', m)
            /\ CopiesIn(Vote(m, s, resp'.body[4]), votes') = (IF resp'.body[4] = 0 THEN 0 ELSE 1)
            /\ resp'.body[4] = 0 => KeyCount(votes', m, s) = 0]_vars

C13_Witness ==
  /\ resp = Response("vote.get", 200, "", <<1, 1, 0, -1>>)
  /\ BagCardinality(votes) = 3
  /\ \E m \in DOMAIN memes : memes[m].is_public = 0 /\ KeyCount(votes, m, "u1") = 1

\* C16: in every reachable state every Vote row references a meme that
\* exists.
C16_NoOrphanVotes ==
  \A v \in Rows(votes) : v.meme_id \in DOMAIN memes

C16_Witness ==
  /\ resp = Response("meme.delete", 200, "", <<>>)
  /\ Cardinality(DOMAIN memes) = 1
  /\ BagCardinality(votes) = 2
  /\ inflight # EmptyBag

\* C17: when a user whose resolved row has neither invite_redeemed nor role
\* admin redeems an unused code written in upper case, in lower case, or in
\* mixed case between spaces, and no save() throws, the call answers 200, the
\* user's invite_redeemed becomes 1 and the invite gets used_by = the user
\* and used_at = the time of the call.
C17_RedeemNormalizesCode ==
  [][\A req \in BagToSet(inflight) :
       (RedeemStep(req) /\ req.user # NoUser /\ ~HasAccess(req.user)) =>
         \A code \in {CodeA, RawLowerA, RawPaddedA} :
           (/\ \E i \in DOMAIN invites : invites[i].code = CodeA /\ invites[i].used_by = Null
            /\ Redeem(req, code, 0)) =>
             /\ resp' = Response("redeem", 200, "Invite code redeemed successfully", <<>>)
             /\ users'[req.user.id].invite_redeemed = 1
             /\ \A i \in DOMAIN invites : invites[i].code = CodeA =>
                  /\ i \in DOMAIN invites'
                  /\ invites'[i].used_by = req.user.id
                  /\ invites'[i].used_at = clock]_vars

C17_Witness ==
  /\ resp = Response("redeem", 200, "Invite code redeemed successfully", <<>>)
  /\ \E i \in DOMAIN invites :
       invites[i].code = CodeA /\ invites[i].used_by = "u3" /\ invites[i].used_at = 1
  /\ users["u3"].invite_redeemed = 1
  /\ users["u2"].invite_redeemed = 1

\* C18: a bootstrap call made without a session answers 401 'Must be
\* authenticated to bootstrap admin' in every state, whether or not an admin
\* exists, and leaves every user record as it was.
C18_BootstrapAnonUnauthorized ==
  [][\A f \in 0..2 :
       Bootstrap(Anon, f) =>
         /\ resp' = Response("bootstrap", 401, "Must be authenticated to bootstrap admin", <<>>)
         /\ users' = users]_vars

\* the parts of a gallery response
BodyMemes(r) == r.body[1]
BodyPage(r) == r.body[2]
BodyLimit(r) == r.body[3]
BodyTotal(r) == r.body[4]
BodyTotalPages(r) == r.body[5]
BodyHasNext(r) == r.body[6]
BodyHasPrev(r) == r.body[7]

\* the memes that are public now and whose age is within the query's period
PeriodDays == ("7d" :> 7) @@ ("30d" :> 30) @@ ("year" :> 365)

PublicInPeriod(query) ==
  {m \in DOMAIN memes :
     /\ memes[m].is_public = 1
     /\ "period" \in DOMAIN query /\ query.period # "all" =>
          clock - memes[m].created_at <= PeriodDays[query.period] * 48}

OnlyPublic(r, query) ==
  /\ \A i \in 1..Len(BodyMemes(r)) :
       /\ BodyMemes(r)[i].id \in DOMAIN memes
       /\ memes[BodyMemes(r)[i].id].is_public = 1
  /\ BodyTotal(r) = Cardinality(PublicInPeriod(query))

\* C14: in every state, for every session, period, sort, page and limit,
\* every item of the 200 answer of the gallery is a meme that is public in
\* that state, and total is the number of public memes within the period; a
\* private meme is never an item, also when it was public before and still
\* has votes.
C14_GalleryOnlyPublic ==
  \A s \in Sessions, query \in GalleryQueries :
    galleryRoute(deserializeUser(s), query).status = 200 =>
      OnlyPublic(galleryRoute(deserializeUser(s), query), query)

C14_Witness ==
  /\ resp.route = "gallery" /\ resp.status = 200
  /\ memes["m1"].is_public = 0 /\ memes["m2"].is_public = 1 /\ memes["m3"].is_public = 1
  /\ \E v \in Rows(votes) : v.meme_id = "m1"
  /\ BodyTotal(resp) = 2
  /\ Len(BodyMemes(resp)) = 2
  /\ \A i \in 1..2 : BodyMemes(resp)[i].id # "m1"

\* a step is the gallery handler answering 200
GalleryAnswered == resp'.route = "gallery" /\ resp'.status = 200

\* the numbers the limit strings of the requests denote
RequestedLimit ==
  (<<"1">> :> 1) @@ (<<"2">> :> 2) @@ (<<"0">> :> 0) @@ (<<"-", "5">> :> 0 - 5) @@
  (<<"1", "0", "0", "0">> :> 1000)

Clamp(n, low, high) == IF n < low THEN low ELSE IF n > high THEN high ELSE n

\* C19: the limit of a gallery answer is the requested limit clamped to
\* 1..50: 1000 gives 50, and 0 and every negative number give 1.
C19_LimitClamped ==
  [][\A s \in Sessions, query \in GalleryQueries :
       (/\ GalleryAnswered
        /\ "limit" \in DOMAIN query
        /\ query.limit \in DOMAIN RequestedLimit
        /\ Gallery(s, query)) =>
         BodyLimit(resp') = Clamp(RequestedLimit[query.limit], 1, 50)]_vars

PageString == <<<<"1">>, <<"2">>, <<"3">>, <<"4">>>>

\* the items of pages 1..n of the query, one after the other
RECURSIVE PagesUpTo(_, _, _)
PagesUpTo(user, query, n) ==
  IF n = 0 THEN <<>>
  ELSE PagesUpTo(user, query, n - 1) \o
       BodyMemes(galleryHandler(memes, votes, user,
                                [period |-> param(query, "period", "all"),
                                 sort |-> param(query, "sort", "hot"),
                                 page |-> PageString[n],
                                 limit |-> param(query, "limit", <<"2", "0">>)],
                                clock))

PaginationConsistent(r, sorted, all, query) ==
  LET items == BodyMemes(r)
      p == BodyPage(r)
      l == BodyLimit(r)
      total == BodyTotal(r)
      totalPages == BodyTotalPages(r)
  IN  /\ p >= 1 /\ l >= 1
      /\ total = Cardinality(PublicInPeriod(query))
      /\ total = Len(sorted)
      /\ Len(items) = Math_max(0, Math_min(l, total - (p - 1) * l))
      /\ \A k \in 1..Len(items) : items[k] = sorted[(p - 1) * l + k]
      /\ totalPages * l >= total /\ (totalPages - 1) * l < total
      /\ BodyHasNext(r) = (p < totalPages)
      /\ BodyHasPrev(r) = (p > 1)
      /\ Len(all) = total
      /\ \A m \in PublicInPeriod(query) :
           Cardinality({k \in 1..Len(all) : all[k].id = m}) = 1

\* C20: in every state, for every session and query, the 200 answer of the
\* gallery for page p and limit l over the sorted list of the
\* filtered memes holds the items at positions (p-1)*l+1 .. p*l of that list;
\* total is the length of the list, totalPages is ceil(total / l), hasNext is
\* p < totalPages and hasPrev is p > 1; and the answers for pages
\* 1..totalPages of the same period, sort and limit over the same store
\* hold, one after the other, every filtered meme exactly once.
C20_PaginationConsistent ==
  \A s \in Sessions, query \in GalleryQueries :
    galleryRoute(deserializeUser(s), query).status = 200 =>
      PaginationConsistent(
        galleryRoute(deserializeUser(s), query),
        sortedMemes(memes, votes, deserializeUser(s), param(query, "period", "all"),
                    param(query, "sort", "hot"), clock),
        PagesUpTo(deserializeUser(s), query,
                  BodyTotalPages(galleryRoute(deserializeUser(s), query))),
        query)

C20_Witness ==
  /\ resp.route = "gallery" /\ resp.status = 200
  /\ BodyPage(resp) = 2 /\ BodyLimit(resp) = 1
  /\ BodyTotal(resp) = 3 /\ BodyTotalPages(resp) = 3
  /\ BodyHasNext(resp) /\ BodyHasPrev(resp)
  /\ Len(BodyMemes(resp)) = 1
  /\ BodyMemes(resp)[1].id = "m2"

\* the actor owns the resource or is admin
IsOwnerOrAdmin(user, ownerId) == user.id = ownerId \/ user.role = "admin"

\* the template, the memes, their files and the votes are as before
ResourcesUnchanged == UNCHANGED <<templates, files, memes, votes>>

\* a mutating route run by this actor on a stored resource of this owner:
\* another actor gets 403 and changes nothing
OwnerOrAdminOnly(user, ownerId) ==
  /\ ~IsOwnerOrAdmin(user, ownerId) => resp'.status = 403 /\ ResourcesUnchanged
  /\ ~ResourcesUnchanged => IsOwnerOrAdmin(user, ownerId)

HotValue(score, createdAt) ==
  (CASE score = 0 -> 0
     [] score \in {1, -1} -> 0
     [] score = 2 -> 7526
     [] score = -2 -> 0 - 7526
     [] score = 3 -> 11928
     [] score = -3 -> 0 - 11928)
  + 1000 * (createdAt - 946704)

\* the items of a 200 answer under sort=hot are in descending hot order, and
\* of two items with the same score the one created later comes first
HotOrdered(r) ==
  \A i, j \in 1..Len(BodyMemes(r)) :
    i < j =>
      LET a == BodyMemes(r)[i]
          b == BodyMemes(r)[j]
      IN  /\ a.score = a.upvotes - a.downvotes
          /\ HotValue(a.score, a.created_at) >= HotValue(b.score, b.created_at)
          /\ a.score = b.score => a.created_at >= b.created_at

ClaimedKey(sort, item) ==
  IF sort = "hot" THEN HotValue(item.upvotes - item.downvotes, item.created_at)
  ELSE IF sort = "top" THEN item.upvotes - item.downvotes
  ELSE item.created_at

\* the place of a meme in the rows the store hands to the handler
InputIndex(id) ==
  CHOOSE i \in 1..Len(memeQueries_getPublic(memes)) : memeQueries_getPublic(memes)[i] = id

\* the items are in descending order of the key of the sort, items with the
\* same key are in input order, and no meme is listed twice
StablyOrdered(r, sort) ==
  \A i, j \in 1..Len(BodyMemes(r)) :
    i < j =>
      LET a == BodyMemes(r)[i]
          b == BodyMemes(r)[j]
      IN  /\ a.id # b.id
          /\ ClaimedKey(sort, a) >= ClaimedKey(sort, b)
          /\ ClaimedKey(sort, a) = ClaimedKey(sort, b) => InputIndex(a.id) < InputIndex(b.id)

\* C22: in every state, for every session and every query with sort hot,
\* top or new that is answered 200, the items are ordered by hot score /
\* raw score / createdAt descending, memes that tie on the key keep the
\* relative order in which the store returned them, and no meme appears
\* twice; the answer is a function of the store state, the caller and the
\* query.
C22_StableTotalOrder ==
  \A s \in Sessions, query \in HotQueries :
    (/\ param(query, "sort", "hot") \in validSorts
     /\ galleryRoute(deserializeUser(s), query).status = 200) =>
       StablyOrdered(galleryRoute(deserializeUser(s), query), param(query, "sort", "hot"))

\* layout 3 answered under sort=top: m2 and m3 tie on score 1 and on
\* createdAt and stay in input order, ahead of m1 with score -2
C22_Witness ==
  /\ resp.route = "gallery" /\ resp.status = 200
  /\ memes["m1"].created_at = memes["m3"].created_at
  /\ Len(BodyMemes(resp)) = 3
  /\ BodyMemes(resp)[1].id = "m2" /\ BodyMemes(resp)[2].id = "m3"
  /\ BodyMemes(resp)[3].id = "m1"
  /\ BodyMemes(resp)[1].score = BodyMemes(resp)[2].score

\* a request of the address to a rate-limited route, up to its handler
BeginFrom(route, s) ==
  CASE route = "redeem" -> BeginRedeemFrom(ClientIp, s)
    [] route = "gallery" -> GalleryFrom(ClientIp, s, <<>>)
    [] OTHER -> BeginInvitedFrom(ClientIp, route, s)

\* every request to one of the routes that the global limiter lets pass is
\* counted by the limiter of the route, whatever the guards answer
CountedBeforeGuards(routes) ==
  \A s \in Sessions, route \in routes :
    (/\ hits["global"] < LimiterMax["global"]
     /\ hits'["global"] = hits["global"] + 1
     /\ BeginFrom(route, s)) =>
      hits'[limiterOf[route]] = hits[limiterOf[route]] + 1

\* C23: every request to a rate-limited route (here redeem, vote, gallery)
\* is counted by the limiter of its group before an authorization guard of
\* the route answers: whenever such a request gets past the global limiter,
\* the counter of its group grows by one, also when a guard rejects it.
C23_LimiterBeforeGuards == [][CountedBeforeGuards({"redeem", "vote.cast", "gallery"})]_vars

\* the same for the routes whose limiter is mounted ahead of the guards
LimiterFirstRoutesCounted == [][CountedBeforeGuards({"redeem", "gallery"})]_vars

\* log is the beginning of later
IsPrefix(log, later) ==
  Len(log) <= Len(later) /\ \A i \in 1..Len(log) : later[i] = log[i]

\* C24: a step that is not a retention sweep keeps every audit entry as it
\* is, in its place (entries are only appended); a retention sweep with
\* window W at time now keeps exactly the entries with timestamp >= now - W,
\* unchanged and in their order, and removes exactly the older ones.
C24_AuditAppendOnly ==
  [][/\ \/ IsPrefix(audit_logs, audit_logs')
        \/ \E olderThanMs \in RetentionInputs, f \in 0..1 :
             resp'.route = "audit.cleanup" /\ cleanup(olderThanMs, f)
     /\ \A olderThanMs \in RetentionInputs, f \in 0..1 :
          (resp'.route = "audit.cleanup" /\ cleanup(olderThanMs, f)) =>
            audit_logs' = SelectSeq(audit_logs,
                                    LAMBDA e : e.timestamp >= clock - olderThanMs)]_vars

\* a sweep has removed an entry and kept one whose timestamp is exactly
\* now minus the default window
C24_Witness ==
  /\ resp.route = "audit.cleanup"
  /\ resp.body[1] > 0
  /\ Len(audit_logs) > 0
  /\ audit_logs[1].timestamp = clock - DefaultRetention

\* s is logged in, has redeemed no invite and is not admin
Uninvited(s) ==
  /\ s \in DOMAIN users
  /\ users[s].invite_redeemed = 0
  /\ users[s].role # "admin"

\* the step is a request of session s to a template, meme, vote, gallery,
\* admin or invite-management route
ApiRequest(s) ==
  \/ ListTemplates(s)
  \/ ListMemes(s)
  \/ CreateMeme(s, "t1", "e0", 0)
  \/ UpdateMeme(s, "m1", "e1", 0)
  \/ \E isPublic \in BOOLEAN : SetVisibility(s, "m1", isPublic, 0)
  \/ GetVotes(s, "m1")
  \/ Gallery(s, <<>>)
  \/ \E role \in Roles : SetRole(s, "u3", role, 0)
  \/ CreateInvite(s, CodeB, 0)
  \/ \E id \in InviteIds : DeleteInvite(s, id, 0)
  \/ \E route \in InvitedRoutes : BeginInvited(route, s)

\* the step is a request of session s for a file under /uploads
UploadRequest(s) == \E path \in UploadPaths : GetUpload(s, path)

\* every request of a user without invite to the API routes is answered 403
UninvitedRejectedByApi ==
  [][\A s \in UserIds : (Uninvited(s) /\ ApiRequest(s)) => resp'.status = 403]_vars

\* C25: every request of a logged-in user without invite who is not admin
\* to a template, meme, vote, gallery, admin or invite-management route or
\* for an uploaded file under /uploads is rejected (answered 401 or 403).
C25_UninvitedOnlyRedeem ==
  [][\A s \in UserIds :
       (Uninvited(s) /\ (ApiRequest(s) \/ UploadRequest(s))) =>
         resp'.status \in {401, 403}]_vars

\* ---------------------------------------------------------------------------
\* C26
\* ---------------------------------------------------------------------------

Entities ==
  { <<"&", "a", "m", "p", ";">>, <<"&", "l", "t", ";">>, <<"&", "g", "t", ";">>,
    <<"&", "q", "u", "o", "t", ";">>, <<"&", "#", "x", "2", "7", ";">> }

\* no < > " ' is left in the name and every & starts an entity
Sanitized(name) ==
  \A i \in 1..Len(name) :
    /\ name[i] \notin {"<", ">", "\"", "'"}
    /\ name[i] = "&" =>
         \E e \in Entities : /\ i + Len(e) - 1 <= Len(name)
                             /\ SubSeq(name, i, i + Len(e) - 1) = e

\* every stored name is sanitized; this part of the statement holds
StoredNamesSanitized == \A t \in DOMAIN templates : Sanitized(templates[t].name)

\* a stored name is at most as long as 100 entities of six characters
StoredNamesWithinEscapedLength ==
  \A t \in DOMAIN templates : Len(templates[t].name) <= 6 * MAX_NAME_LENGTH

\* C26: every stored template name is sanitized and at most 100 characters
\* long, for every upload name the server accepts
C26_StoredNameSanitizedShort ==
  \A t \in DOMAIN templates :
    /\ Sanitized(templates[t].name)
    /\ Len(templates[t].name) <= MAX_NAME_LENGTH

\* ---------------------------------------------------------------------------
\* C27
\* ---------------------------------------------------------------------------

\* the invites a user has redeemed
RedeemedBy(u) == { i \in DOMAIN invites : invites[i].used_by = u }

\* C27: each user is the redeemer of at most one invite code, for all
\* interleavings of redeem requests, two concurrent requests of one session
\* with two different valid codes included
C27_OneInvitePerUser ==
  \A u \in DOMAIN users : Cardinality(RedeemedBy(u)) <= 1

\* ---------------------------------------------------------------------------
\* C28
\* ---------------------------------------------------------------------------

\* a request of session s to a route behind isAdmin
AdminRequest(s) ==
  \/ \E id \in {"u3"}, role \in Roles : SetRole(s, id, role, 0)
  \/ CreateInvite(s, CodeB, 0)
  \/ \E id \in InviteIds : DeleteInvite(s, id, 0)

\* a request of session s to a route behind hasInvite is let through
PassesHasInvite(s) ==
  \/ ListMemes(s) /\ resp'.status = 200
  \/ BeginInvited("vote.remove", s) /\ inflight' # inflight

\* a request of session s to a route behind hasInvite
InvitedRequest(s) == ListMemes(s) \/ BeginInvited("vote.remove", s)

\* C28: authorization follows the stored user, not a copy made at login: a
\* request of a demoted admin's session to an admin route is answered 403,
\* and a request of a session whose user has redeemed or been promoted
\* passes hasInvite
C28_AuthorizationIsCurrent ==
  [][ /\ (users["u2"].role = "user" /\ AdminRequest("u2")) => resp'.status = 403
      /\ ((users["u3"].invite_redeemed # 0 \/ users["u3"].role = "admin")
            /\ InvitedRequest("u3")) => PassesHasInvite("u3") ]_vars

\* u2 has been demoted and the invite route has answered its session 403,
\* while a request that u3's session sent after redeeming has passed
\* hasInvite and waits for its handler
C28_Witness ==
  /\ users["u2"].role = "user"
  /\ resp = Response("create", 403, MsgAdminRequired, <<>>)
  /\ BagIn(Request("invited", [id |-> "u3", role |-> "user", invite_redeemed |-> 1]), inflight)

\* ---------------------------------------------------------------------------
\* C29
\* ---------------------------------------------------------------------------

\* the Vote rows of meme m in vs' are rows it had in vs
RowsOnlyShrink(m) ==
  \A v \in Rows(votes') : v.meme_id = m => CopiesIn(v, votes') <= CopiesIn(v, votes)

\* C29: while a meme is private no Vote row of it is inserted or changed; a
\* change of visibility keeps every Vote row; and remove on a private meme
\* leaves no row of the caller
C29_PrivateVotesOnlyShrink ==
  [][ /\ \A m \in DOMAIN memes : memes[m].is_public = 0 => RowsOnlyShrink(m)
      /\ (\E m \in DOMAIN memes \cap DOMAIN memes' :
            memes'[m].is_public # memes[m].is_public) => votes' = votes
      /\ \A req \in BagToSet(inflight) : (resp'.route = "vote.remove" /\ InvitedStep(req)) =>
           \A m \in DOMAIN memes, f \in 0..1 :
             (memes[m].is_public = 0 /\ RemoveVote(req, m, f)) =>
               KeyCount(votes', m, req.user.id) = 0 ]_vars

\* the only meme is private and keeps the vote u1 cast while it was public;
\* the last response is that of a remove, sent after the meme was made private
C29_Witness ==
  /\ resp = Response("vote.remove", 200, "", <<1, 0, 1, 0>>)
  /\ \E m \in MemeIds :
       /\ DOMAIN memes = {m}
       /\ memes[m].is_public = 0
       /\ votes = SetToBag({Vote(m, "u1", 1)})

\* ---------------------------------------------------------------------------
\* C30
\* ---------------------------------------------------------------------------

\* the file holds the tables of users, invites, templates, memes and votes as
\* they are in memory
TablesDurable ==
  /\ disk.users = users
  /\ disk.invites = invites
  /\ disk.templates = templates
  /\ disk.memes = memes
  /\ disk.votes = votes

\* the file lacks at most audit entries appended since it was written
AuditDurableButTail == IsPrefix(disk.audit_logs, audit_logs)

\* a step that starts with the tables durable and in which no save() throws
\* ends with the tables durable
DurableWhenSaved ==
  [][(TablesDurable /\ resp'.status # 500) => TablesDurable']_vars

\* C30: between operations the database file differs from the database in
\* memory at most in audit entries appended since the last flush
C30_DurableButAudit == TablesDurable /\ AuditDurableButTail

====
